---- MODULE Spec2Model ----
(***************************************************************************)
(* Model of the ingestion pipeline of social-network-analysis:             *)
(*   src/src/fb_downloader.py  (GraphApi: credential exchange, paginated   *)
(*                              fetch, shard buffers, crawl driver)        *)
(*   src/src/url_downloader.py (time-boxed polling crawl)                  *)
(* Strings of the program are TLA+ strings; Python dictionaries are        *)
(* records whose DOMAIN is the set of keys present.                        *)
(***************************************************************************)
EXTENDS Integers, Sequences, FiniteSets, Bags, TLC

VARIABLES
    \* ---- storage and configuration shared by the fb_downloader flows
    fs,               \* the data directory: [dir, files, calls]
    DATA_FILE_SIZE,   \* module global, fb_downloader.py:14
    POST_COUNT,       \* module global, fb_downloader.py:22 / :64
    \* ---- save_full_author_data
    feed,             \* what the remote API offers for the crawl target
    pc,               \* position of the running flow
    error,            \* exception in flight ("None" when there is none)
    posts, interactions,
    postCount, commentCount, likeCount, shareCount,
    postGen, subGen,  \* the get_all_elements generators (posts / current sub-resource)
    postId,
    producedPosts, producedInts,   \* history: every record appended to a list
    \* ---- save_users_details
    users, userIds,
    \* ---- like-id synthesis on given ids
    likeArgs, likeIds,
    \* ---- get_all_elements on a given chain of pages
    chain,            \* url -> the page the API answers with
    cursor,           \* the generator
    yielded,          \* history: the elements the generator has yielded
    \* ---- url_downloader.Main
    RUNTIME_DURATION, \* module global, url_downloader.py:18
    tweets, maxId, results, resultsIds, iteration, now,
    pollLog, observed,             \* history: the polls (query sent, ids returned), the ids that gave records
    \* ---- credential exchange and Main of fb_downloader
    APP_ID, APP_SECRET,            \* module globals, fb_downloader.py:68-69 (from the environment)
    body,                          \* the text the credential exchange answers with
    accessToken, requests,         \* self.accessToken; history: every request sent
    authorId, authorName

fsVars    == <<fs, DATA_FILE_SIZE, POST_COUNT>>
crawlVars == <<feed, pc, error, posts, interactions, postCount, commentCount, likeCount,
               shareCount, postGen, subGen, postId, producedPosts, producedInts>>
userVars  == <<users, userIds>>
likeVars  == <<likeArgs, likeIds>>
pollVars  == <<RUNTIME_DURATION, tweets, maxId, results, resultsIds, iteration, now,
               pollLog, observed>>
tokenVars == <<APP_ID, APP_SECRET, body, accessToken, requests, authorId, authorName>>
cursorVars == <<chain, cursor, yielded>>
auxVars   == <<likeVars, pollVars, tokenVars, cursorVars>>
vars      == <<fsVars, crawlVars, userVars, auxVars>>

(***************************************************************************)
(* Bounds of the model.                                                    *)
(***************************************************************************)
MaxExisting == 2      \* indices 0..MaxExisting-1 may pre-exist per prefix
MaxSaves    == 2      \* direct save_data calls in one behaviour of SpecSave

(***************************************************************************)
(* String helpers (Python str methods).                                    *)
(***************************************************************************)
EndsWith(s, t) == Len(s) >= Len(t) /\ SubSeq(s, Len(s) - Len(t) + 1, Len(s)) = t

StartsWith(s, t) == Len(s) >= Len(t) /\ SubSeq(s, 1, Len(t)) = t

\* Python's `t in s` for strings.
Contains(s, t) == \E i \in 1..(Len(s) - Len(t) + 1) : SubSeq(s, i, i + Len(t) - 1) = t

None == "None"

(***************************************************************************)
(* GraphApi.save_data, fb_downloader.py:124-161.                           *)
(* fs.dir is what os.path says about dataDir: "absent", "dir" or "file"    *)
(* (a regular file with the directory's name).  fs.files maps each file    *)
(* name in the directory to its content.  fs.calls is the history of       *)
(* save_data calls: the prefix given, the object given, the file written   *)
(* (None when the call returned False without writing).                    *)
(***************************************************************************)
\* lines 145-147: a non-empty prefix gets a trailing underscore
PrefixWithUnderscore(filename_prefix) ==
    IF filename_prefix # "" /\ ~EndsWith(filename_prefix, "_")
    THEN filename_prefix \o "_"
    ELSE filename_prefix

\* line 152
Filename(filename_prefix, counter) ==
    filename_prefix \o "data_" \o ToString(counter) \o ".json"

\* lines 150-156: counter = 0; while the name exists: counter += 1
RECURSIVE FindCounter(_, _, _)
FindCounterFromMax(files, filename_prefix, counter) ==
    Cardinality({n \in 0..Cardinality(DOMAIN files) :
                    Filename(filename_prefix, n) \in DOMAIN files})
FindCounter(files, filename_prefix, counter) ==
    IF Filename(filename_prefix, counter) \notin DOMAIN files
    THEN counter
    ELSE FindCounter(files, filename_prefix, counter + 1)

\* The directory after save_data(obj, data_subdir, filename_prefix).
SaveData(d, obj, filename_prefix) ==
    IF d.dir = "file"
    THEN \* lines 138-141: print, return False
         [d EXCEPT !.calls = Append(@, [prefix |-> filename_prefix, obj |-> obj,
                                        name |-> None])]
    ELSE LET prefix   == PrefixWithUnderscore(filename_prefix)
             filename == Filename(prefix, FindCounter(d.files, prefix, 0))
         IN  [dir   |-> "dir",                                   \* line 143
              files |-> [f \in DOMAIN d.files \cup {filename} |->
                            IF f = filename THEN obj ELSE d.files[f]],
              calls |-> Append(d.calls, [prefix |-> filename_prefix, obj |-> obj,
                                         name |-> filename])]

\* Names of the files written by save_data calls so far, in creation order.
RECURSIVE WrittenOf(_)
WrittenOf(calls) ==
    IF calls = << >> THEN << >>
    ELSE LET rest == WrittenOf(SubSeq(calls, 1, Len(calls) - 1))
             c    == calls[Len(calls)]
         IN  IF c.name = None THEN rest ELSE Append(rest, c.name)

NoFiles == [f \in {} |-> << >>]

(***************************************************************************)
(* Size estimates, fb_downloader.py:105-121.                               *)
(***************************************************************************)
ONE_INTERACTION_SIZE == 273
ONE_POST_SIZE == 1010

GetInteractionListSizeOfPosts(list_obj) == ONE_POST_SIZE * Len(list_obj)
GetInteractionListSize(list_obj) == ONE_INTERACTION_SIZE * Len(list_obj)

GetPostListSize(list_obj) == ONE_POST_SIZE * Len(list_obj)

(***************************************************************************)
(* GraphApi.append_interaction, fb_downloader.py:164-180, and               *)
(* GraphApi.append_user, :183-200.  The result is the list returned and    *)
(* the directory after the call.                                           *)
(***************************************************************************)
NeedsDumpAtLimit(size, limit) == size >= limit
NeedsDump(size, limit) == size > limit

AppendInteraction(d, limit, interaction_list, interaction) ==
    LET full == Append(interaction_list, interaction)
    IN  IF NeedsDump(GetInteractionListSize(full), limit)
        THEN [list |-> << >>, fs |-> SaveData(d, full, "interaction")]
        ELSE [list |-> full, fs |-> d]

AppendUser(d, limit, user_list, user) ==
    LET full == Append(user_list, user)
    IN  IF NeedsDump(GetInteractionListSize(full), limit)
        THEN [list |-> << >>, fs |-> SaveData(d, full, "user")]
        ELSE [list |-> full, fs |-> d]

\* save_full_author_data lines 456-460: posts.append(post), dump if necessary
AppendPostNoDump(d, limit, post_list, post) ==
    [list |-> Append(post_list, post), fs |-> d]
AppendPost(d, limit, post_list, post) ==
    LET full == Append(post_list, post)
    IN  IF NeedsDump(GetPostListSize(full), limit)
        THEN [list |-> << >>, fs |-> SaveData(d, full, "post")]
        ELSE [list |-> full, fs |-> d]

(***************************************************************************)
(* The remote API.  feed[k] gives, for the k-th post the target offers,    *)
(* how many comments, likes and shares it has; the raw items are built     *)
(* from their positions.  A page request at offset `off` returns an error  *)
(* object, or a page {data, paging:{next}} of up to MaxPageLen items; a    *)
(* page that is not the last always carries `next`, the last one may       *)
(* carry a `next` that leads to an empty page.                             *)
(***************************************************************************)
MaxPosts   == 2     \* posts the target offers
MaxItems   == 2     \* comments + likes + shares over the whole feed
MaxPageLen == 2     \* items per page
MaxUsers   == 2     \* user ids given to save_users_details

AuthorId == "9"

Min(a, b) == IF a < b THEN a ELSE b

PostIdOf(k) == AuthorId \o "_" \o ToString(k)

\* The three shapes of the `shares` field of a raw post: with a count, absent,
\* present without a count.  The shape varies with the post's place and comments.
RawPost(f, k) ==
    LET shape == (k + f[k].comments) % 3
    IN  CASE shape = 1 -> [id |-> PostIdOf(k), message |-> "m", shares |-> [count |-> 3]]
          [] shape = 2 -> [id |-> PostIdOf(k), message |-> "m"]
          [] OTHER     -> [id |-> PostIdOf(k), message |-> "m", shares |-> NoFiles]

RawComment(pid, j) ==
    [id |-> pid \o "_" \o ToString(j), created_time |-> "t",
     from |-> [id |-> ToString(j)], message |-> "m", like_count |-> 0]

RawLike(pid, j) == [id |-> ToString(j)]

RawShare(pid, j) ==
    IF j % 2 = 1
    THEN [id |-> ToString(j) \o "_" \o pid, created_time |-> "t",
          from |-> [id |-> ToString(j)], message |-> "s"]
    ELSE [id |-> ToString(j) \o "_" \o pid, created_time |-> "t",
          from |-> [id |-> ToString(j)]]

Triples == [comments : 0..MaxItems, likes : 0..MaxItems, shares : 0..MaxItems]

RECURSIVE TotalItems(_)
TotalItems(f) ==
    IF f = << >> THEN 0
    ELSE f[1].comments + f[1].likes + f[1].shares + TotalItems(Tail(f))

Feeds == {f \in UNION {[1..n -> Triples] : n \in 0..MaxPosts} : TotalItems(f) <= MaxItems}

\* The items of a resource, in the order the API returns them.
ItemsOf(f, kind, k) ==
    CASE kind = "posts"    -> [j \in 1..Len(f) |-> RawPost(f, j)]
      [] kind = "comments" -> [j \in 1..f[k].comments |-> RawComment(PostIdOf(k), j)]
      [] kind = "likes"    -> [j \in 1..f[k].likes |-> RawLike(PostIdOf(k), j)]
      [] kind = "shares"   -> [j \in 1..f[k].shares |-> RawShare(PostIdOf(k), j)]

ErrorResponse == [error |-> [message |-> "e"]]

\* The responses the API may give to a page request of `items` at offset `off`.
PageResponses(items, off) ==
    LET n == Len(items)
    IN  {ErrorResponse}
        \cup (IF off >= n THEN {[data |-> << >>]} ELSE {})
        \cup {[data |-> SubSeq(items, off + 1, off + len), paging |-> [next |-> off + len]] :
                 len \in 1..Min(MaxPageLen, n - off)}
        \cup (IF off < n /\ n - off <= MaxPageLen
              THEN {[data |-> SubSeq(items, off + 1, n)]} ELSE {})

\* A comments page may hold a comment without `from`.
WithoutFrom(resp) ==
    {[resp EXCEPT !.data[b] = [x \in DOMAIN @ \ {"from"} |-> @[x]]] :
        b \in 1..Len(resp.data)}

Responses(f, kind, k, off) ==
    LET plain == PageResponses(ItemsOf(f, kind, k), off)
    IN  IF kind = "comments"
        THEN plain \cup UNION {WithoutFrom(r) : r \in {p \in plain : "data" \in DOMAIN p}}
        ELSE plain

(***************************************************************************)
(* GraphApi.response_has_error, fb_downloader.py:241-255.                  *)
(***************************************************************************)
ResponseHasError(response_dict, raise_exception) ==
    IF "error" \in DOMAIN response_dict
    THEN IF ~raise_exception
         THEN [ret |-> response_dict.error]
         ELSE [raise |-> "ValueError"]
    ELSE [ret |-> None]

(***************************************************************************)
(* GraphApi.get_all_elements, fb_downloader.py:319-344, as a generator:    *)
(* gen.req is the offset of the page request (the first request, or the    *)
(* `next` URL followed verbatim), gen.page the page held, gen.i the index  *)
(* of the element last yielded.                                            *)
(***************************************************************************)
NewGen == [req |-> 0, page |-> [data |-> << >>], i |-> 0]

\* line 334, evaluated on a page just received: "raise", "return" or "yield"
GenOnPage(page) ==
    LET err == ResponseHasError(page, TRUE)
    IN  IF "raise" \in DOMAIN err THEN "raise"
        ELSE IF err.ret # None THEN "return"
        ELSE IF page.data = << >> THEN "return"
        ELSE "yield"

\* lines 335-344, resumed after the element gen.i: "yield", "return" or "request"
GenResume(gen) ==
    IF gen.i < Len(gen.page.data) THEN "yield"
    ELSE IF "paging" \in DOMAIN gen.page /\ "next" \in DOMAIN gen.page.paging
         THEN "request"
         ELSE "return"

NextUrlOfFollowingPage(g) == g.req + 1
NextUrl(g) == g.page.paging.next

(***************************************************************************)
(* Python dict helpers.                                                    *)
(***************************************************************************)
Put(d, key, val) == [k \in DOMAIN d \cup {key} |-> IF k = key THEN val ELSE d[k]]

Del(d, key) == [k \in DOMAIN d \ {key} |-> d[k]]

Get(d, key, default) == IF key \in DOMAIN d THEN d[key] ELSE default

(***************************************************************************)
(* save_full_author_data, fb_downloader.py:396-526.                        *)
(***************************************************************************)
\* lines 447-454: the post as stored
FlattenPostCountRequired(post, author_id) ==
    LET tagged == Put(Put(post, "origin", "facebook"), "author", author_id)
    IN  IF "shares" \in DOMAIN tagged /\ "count" \in DOMAIN tagged.shares
        THEN Del(Put(tagged, "share_count", tagged.shares.count), "shares")
        ELSE tagged
FlattenPost(post, author_id) ==
    LET tagged == Put(Put(post, "origin", "facebook"), "author", author_id)
    IN  IF "shares" \in DOMAIN tagged
        THEN Del(Put(tagged, "share_count", Get(tagged.shares, "count", 0)), "shares")
        ELSE Put(tagged, "share_count", 0)

\* lines 423-430
InteractionTemplate(author_id) ==
    [id |-> None, status_id |-> None, status_author |-> author_id,
     type |-> None, author |-> None, origin |-> "facebook"]

\* line 486: "L_{0}_{1}".format(like['id'], postId)
LikeIdNoSeparator(user_id, post_id) == "L_" \o user_id \o post_id
LikeId(user_id, post_id) == "L_" \o user_id \o "_" \o post_id

\* lines 466-473, 485-489, 499-505: [ret |-> interaction] or [raise |-> exception]
MakeInteractionAuthorIsTarget(kind, item, post_id, author_id) ==
    LET t == InteractionTemplate(author_id)
    IN  IF kind = "comments" /\ "from" \notin DOMAIN item THEN [raise |-> "KeyError"]
        ELSE [ret |-> [id |-> IF kind = "likes" THEN LikeId(item.id, post_id) ELSE item.id,
                       status_id |-> post_id, status_author |-> t.status_author,
                       type |-> CASE kind = "comments" -> "comment"
                                  [] kind = "likes" -> "like"
                                  [] kind = "shares" -> "share",
                       author |-> author_id, origin |-> t.origin]]
MakeInteraction(kind, item, post_id, author_id) ==
    LET t == InteractionTemplate(author_id)
    IN  CASE kind = "comments" ->
               IF "from" \notin DOMAIN item THEN [raise |-> "KeyError"]
               ELSE [ret |-> [id |-> item.id, status_id |-> post_id,
                              status_author |-> t.status_author, type |-> "comment",
                              author |-> item.from.id, origin |-> t.origin,
                              created_time |-> item.created_time,
                              message |-> item.message, like_count |-> item.like_count]]
          [] kind = "likes" ->
               [ret |-> [id |-> LikeId(item.id, post_id), status_id |-> post_id,
                         status_author |-> t.status_author, type |-> "like",
                         author |-> item.id, origin |-> t.origin]]
          [] kind = "shares" ->
               [ret |-> [id |-> item.id, status_id |-> post_id,
                         status_author |-> t.status_author, type |-> "share",
                         author |-> item.from.id, origin |-> t.origin,
                         created_time |-> item.created_time,
                         message |-> Get(item, "message", "")]]

\* The post of the feed the fan-out is about.
CurrentPost == postGen.req + postGen.i

\* A request fails in transport (requests.get raises; raw_request / request re-raise).
TransportErrorRetried ==
    /\ pc \in {"posts_req", "sub_req"} \/ (pc = "user_req" /\ userIds # << >>)
    /\ error' = "ConnectionError"
    /\ UNCHANGED <<fsVars, feed, pc, posts, interactions, postCount, commentCount,
                   likeCount, shareCount, postGen, subGen, postId, producedPosts,
                   producedInts, userVars, auxVars>>
TransportError ==
    /\ pc \in {"posts_req", "sub_req"} \/ (pc = "user_req" /\ userIds # << >>)
    /\ error' = "ConnectionError"
    /\ pc' = IF pc = "user_req" THEN "users_finally" ELSE "finally"
    /\ UNCHANGED <<fsVars, feed, posts, interactions, postCount, commentCount, likeCount,
                   shareCount, postGen, subGen, postId, producedPosts, producedInts,
                   userVars, auxVars>>

\* line 442: the posts generator requests a page (line 332 or 344) and tests it (line 334)
PostsPage ==
    /\ pc = "posts_req"
    /\ \E page \in Responses(feed, "posts", 0, postGen.req) :
          LET on == GenOnPage(page)
          IN  /\ postGen' = [postGen EXCEPT !.page = page,
                                             !.i = IF on = "yield" THEN 1 ELSE 0]
              /\ error' = IF on = "raise" THEN "ValueError" ELSE error
              /\ pc' = IF on = "yield" THEN "post_yield" ELSE "finally"
    /\ UNCHANGED <<fsVars, feed, posts, interactions, postCount, commentCount, likeCount,
                   shareCount, subGen, postId, producedPosts, producedInts, userVars, auxVars>>

\* lines 443-463: the loop body up to the comments generator
PostBody ==
    /\ pc = "post_yield"
    /\ LET post   == postGen.page.data[postGen.i]
           stored == FlattenPost(post, AuthorId)
           r      == AppendPost(fs, DATA_FILE_SIZE, posts, stored)
       IN  /\ postCount' = postCount + 1
           /\ postId' = post.id
           /\ posts' = r.list
           /\ fs' = r.fs
           /\ producedPosts' = Append(producedPosts, stored)
    /\ subGen' = [kind |-> "comments", req |-> 0, page |-> NewGen.page, i |-> 0]
    /\ pc' = "sub_req"
    /\ UNCHANGED <<DATA_FILE_SIZE, POST_COUNT, feed, error, interactions, commentCount,
                   likeCount, shareCount, postGen, producedInts, userVars, auxVars>>

\* The sub-resource generator has returned: lines 480, 496, 511.
AfterSub(kind) ==
    CASE kind = "comments" ->
           /\ subGen' = [kind |-> "likes", req |-> 0, page |-> NewGen.page, i |-> 0]
           /\ pc' = "sub_req"
      [] kind = "likes" ->
           /\ subGen' = [kind |-> "shares", req |-> 0, page |-> NewGen.page, i |-> 0]
           /\ pc' = "sub_req"
      [] kind = "shares" ->
           /\ subGen' = subGen
           /\ pc' = "post_end"

\* lines 463, 480, 496: the sub-resource generator requests a page and tests it
SubPage ==
    /\ pc = "sub_req"
    /\ \E page \in Responses(feed, subGen.kind, CurrentPost, subGen.req) :
          LET on == GenOnPage(page)
          IN  CASE on = "yield" ->
                     /\ subGen' = [subGen EXCEPT !.page = page, !.i = 1]
                     /\ pc' = "sub_yield"
                     /\ error' = error
                [] on = "raise" ->
                     /\ error' = "ValueError"
                     /\ pc' = "finally"
                     /\ subGen' = subGen
                [] on = "return" ->
                     /\ AfterSub(subGen.kind)
                     /\ error' = error
    /\ UNCHANGED <<fsVars, feed, posts, interactions, postCount, commentCount, likeCount,
                   shareCount, postGen, postId, producedPosts, producedInts, userVars, auxVars>>

\* lines 464-475, 481-491, 497-507: one item of the fan-out, then the generator resumes
SubItem ==
    /\ pc = "sub_yield"
    /\ LET kind == subGen.kind
           made == MakeInteraction(kind, subGen.page.data[subGen.i], postId, AuthorId)
       IN  /\ commentCount' = IF kind = "comments" THEN commentCount + 1 ELSE commentCount
           /\ likeCount' = IF kind = "likes" THEN likeCount + 1 ELSE likeCount
           /\ shareCount' = IF kind = "shares" THEN shareCount + 1 ELSE shareCount
           /\ IF "raise" \in DOMAIN made
              THEN /\ error' = made.raise
                   /\ pc' = "finally"
                   /\ UNCHANGED <<fs, interactions, producedInts, subGen>>
              ELSE LET r      == AppendInteraction(fs, DATA_FILE_SIZE, interactions, made.ret)
                       resume == GenResume(subGen)
                   IN  /\ interactions' = r.list
                       /\ fs' = r.fs
                       /\ producedInts' = Append(producedInts, made.ret)
                       /\ error' = error
                       /\ CASE resume = "yield" ->
                                 /\ subGen' = [subGen EXCEPT !.i = @ + 1]
                                 /\ pc' = "sub_yield"
                            [] resume = "request" ->
                                 /\ subGen' = [subGen EXCEPT !.req = NextUrl(subGen)]
                                 /\ pc' = "sub_req"
                            [] resume = "return" ->
                                 AfterSub(kind)
    /\ UNCHANGED <<DATA_FILE_SIZE, POST_COUNT, feed, posts, postCount, postGen, postId,
                   producedPosts, userVars, auxVars>>

\* lines 511-514, then the posts generator resumes (lines 335-344)
ReachedAbovePostCount(count, limit) == count > limit
ReachedPostCount(count, limit) == count >= limit

PostEnd ==
    /\ pc = "post_end"
    /\ IF ReachedPostCount(postCount, POST_COUNT)
       THEN /\ pc' = "finally"      \* break
            /\ postGen' = postGen
       ELSE LET resume == GenResume(postGen)
            IN  CASE resume = "yield" ->
                       /\ postGen' = [postGen EXCEPT !.i = @ + 1]
                       /\ pc' = "post_yield"
                  [] resume = "request" ->
                       /\ postGen' = [postGen EXCEPT !.req = NextUrl(postGen)]
                       /\ pc' = "posts_req"
                  [] resume = "return" ->
                       /\ postGen' = postGen
                       /\ pc' = "finally"
    /\ UNCHANGED <<fsVars, feed, error, posts, interactions, postCount, commentCount,
                   likeCount, shareCount, subGen, postId, producedPosts, producedInts,
                   userVars, auxVars>>

\* lines 516-526: the finally block, then return or re-raise
FinalFlushInteractionsOnly(d, interaction_list, post_list) ==
    IF interaction_list # << >>
    THEN SaveData(d, interaction_list, "interaction") ELSE d
FinalFlush(d, interaction_list, post_list) ==
    LET d1 == IF interaction_list # << >>
              THEN SaveData(d, interaction_list, "interaction") ELSE d
    IN  IF post_list # << >> THEN SaveData(d1, post_list, "posts") ELSE d1

Finally ==
    /\ pc = "finally"
    /\ fs' = FinalFlush(fs, interactions, posts)
    /\ pc' = IF error = None THEN "done" ELSE "raised"
    /\ UNCHANGED <<DATA_FILE_SIZE, POST_COUNT, feed, error, posts, interactions, postCount,
                   commentCount, likeCount, shareCount, postGen, subGen, postId,
                   producedPosts, producedInts, userVars, auxVars>>

(***************************************************************************)
(* save_users_details, fb_downloader.py:347-369.                           *)
(***************************************************************************)
RawUser(user_id) ==
    IF user_id = "1"
    THEN [id |-> user_id, name |-> "n", birthday |-> "01/01/1990"]
    ELSE [id |-> user_id, name |-> "n"]

\* lines 363-365
UserInfo(raw) ==
    LET tagged == Put(raw, "origin", "facebook")
    IN  IF Get(tagged, "birthday", None) # None
        THEN Put(tagged, "birthday_format", "MM/DD/YYYY")
        ELSE tagged

\* lines 361-367: one user id of the loop
UserStep ==
    /\ pc = "user_req"
    /\ userIds # << >>
    /\ LET r == AppendUser(fs, DATA_FILE_SIZE, users, UserInfo(RawUser(Head(userIds))))
       IN  /\ users' = r.list
           /\ fs' = r.fs
    /\ userIds' = Tail(userIds)
    /\ UNCHANGED <<DATA_FILE_SIZE, POST_COUNT, crawlVars, auxVars>>

\* line 361: the ids are exhausted
UsersEnd ==
    /\ pc = "user_req"
    /\ userIds = << >>
    /\ pc' = "users_finally"
    /\ UNCHANGED <<fsVars, feed, error, posts, interactions, postCount, commentCount,
                   likeCount, shareCount, postGen, subGen, postId, producedPosts,
                   producedInts, userVars, auxVars>>

\* lines 368-369
UsersFinally ==
    /\ pc = "users_finally"
    /\ fs' = SaveData(fs, users, "user")
    /\ pc' = IF error = None THEN "done" ELSE "raised"
    /\ UNCHANGED <<DATA_FILE_SIZE, POST_COUNT, feed, error, posts, interactions, postCount,
                   commentCount, likeCount, shareCount, postGen, subGen, postId,
                   producedPosts, producedInts, userVars, auxVars>>

(***************************************************************************)
(* Initial states.                                                         *)
(***************************************************************************)
OldContent == <<[id |-> "old"]>>

\* Main (lines 559-563) calls save_author_info before save_full_author_data: the
\* directory then exists and holds the page-info file, unless its path is a
\* regular file.  Shards of an earlier run may be there, with gaps.
OldFiles ==
    [f \in {"user_page_info_data_0.json", "interaction_data_1.json", "post_data_0.json"}
        |-> OldContent]

AbsentDir == [dir |-> "absent", files |-> NoFiles, calls |-> << >>]
UsedDir   == [dir |-> "dir", files |-> OldFiles, calls |-> << >>]
FileAsDir == [dir |-> "file", files |-> NoFiles, calls |-> << >>]

\* Thresholds: below one interaction; exactly two interactions; exactly one post.
FileSizes == {ONE_INTERACTION_SIZE - 1, 2 * ONE_INTERACTION_SIZE, ONE_POST_SIZE}

PostCounts == 0..MaxPosts

IdleLike == likeArgs = << >> /\ likeIds = << >>

IdlePoll ==
    /\ RUNTIME_DURATION = 0
    /\ tweets = << >> /\ maxId = None /\ results = << >> /\ resultsIds = << >>
    /\ iteration = 0 /\ now = 0
    /\ pollLog = << >> /\ observed = {}

IdleToken ==
    /\ APP_ID = "id" /\ APP_SECRET = "secret"
    /\ body = None /\ accessToken = None /\ requests = << >>
    /\ authorId = None /\ authorName = None

IdleCursor == chain = << >> /\ cursor = NewGen /\ yielded = << >>

IdleAux == IdleLike /\ IdlePoll /\ IdleToken /\ IdleCursor

IdleCrawl ==
    /\ feed = << >>
    /\ error = None
    /\ posts = << >> /\ interactions = << >>
    /\ postCount = 0 /\ commentCount = 0 /\ likeCount = 0 /\ shareCount = 0
    /\ postGen = NewGen
    /\ subGen = [kind |-> "comments", req |-> 0, page |-> NewGen.page, i |-> 0]
    /\ postId = None
    /\ producedPosts = << >> /\ producedInts = << >>

InitCrawl ==
    /\ pc = "posts_req"
    /\ fs \in {UsedDir, FileAsDir}
    /\ feed \in Feeds
    /\ POST_COUNT \in PostCounts
    /\ error = None
    /\ posts = << >> /\ interactions = << >>
    /\ postCount = 0 /\ commentCount = 0 /\ likeCount = 0 /\ shareCount = 0
    /\ postGen = NewGen
    /\ subGen = [kind |-> "comments", req |-> 0, page |-> NewGen.page, i |-> 0]
    /\ postId = None
    /\ producedPosts = << >> /\ producedInts = << >>
    /\ users = << >> /\ userIds = << >>

InitUsers ==
    /\ pc = "user_req"
    /\ fs \in {AbsentDir, UsedDir, FileAsDir}
    /\ IdleCrawl
    /\ POST_COUNT = 1000
    /\ users = << >>
    /\ userIds \in {[j \in 1..n |-> ToString(j)] : n \in 0..MaxUsers}

Init ==
    /\ IdleAux
    /\ DATA_FILE_SIZE \in FileSizes
    /\ InitCrawl \/ InitUsers

Next ==
    \/ TransportError
    \/ PostsPage
    \/ PostBody
    \/ SubPage
    \/ SubItem
    \/ PostEnd
    \/ Finally
    \/ UserStep
    \/ UsersEnd
    \/ UsersFinally

Spec == Init /\ [][Next]_vars

(***************************************************************************)
(* Direct calls of save_data on a directory with any set of earlier files. *)
(***************************************************************************)
SavePrefixes == {"", "post", "post_", "interaction", "user"}

SaveObjs == {<<[id |-> "a"]>>, <<[id |-> "a"], [id |-> "b"]>>}

ExistingNames ==
    {Filename(p, n) : p \in {"post_", "interaction_"}, n \in 0..(MaxExisting - 1)}

InitSave ==
    /\ pc = "idle"
    /\ IdleAux
    /\ IdleCrawl
    /\ users = << >> /\ userIds = << >>
    /\ DATA_FILE_SIZE \in FileSizes
    /\ POST_COUNT = 1000
    /\ fs \in {AbsentDir, FileAsDir}
             \cup {[dir |-> "dir", files |-> [f \in names |-> OldContent], calls |-> << >>] :
                      names \in SUBSET ExistingNames}

SaveCall ==
    /\ pc = "idle"
    /\ Len(fs.calls) < MaxSaves
    /\ \E filename_prefix \in SavePrefixes, obj \in SaveObjs :
          fs' = SaveData(fs, obj, filename_prefix)
    /\ UNCHANGED <<DATA_FILE_SIZE, POST_COUNT, crawlVars, userVars, auxVars>>

NextSave == SaveCall

SpecSave == InitSave /\ [][NextSave]_vars

(***************************************************************************)
(* Like-id synthesis (line 486) on ids the Graph API returns: the id of an *)
(* acting user is a string of digits; the id of a post is a string of      *)
(* digits or two of them joined by an underscore (<page id>_<post id>).    *)
(***************************************************************************)
MaxIdLen == 2

RECURSIVE DigitStrings(_)
DigitStrings(n) ==
    IF n = 0 THEN {}
    ELSE {"1", "2"} \cup {a \o b : a \in DigitStrings(n - 1), b \in {"1", "2"}}

ActingUserIds == DigitStrings(MaxIdLen)

GraphPostIds ==
    DigitStrings(MaxIdLen) \cup {a \o "_" \o b : a \in DigitStrings(MaxIdLen), b \in {"1", "2"}}

InitLike ==
    /\ pc = "like_args"
    /\ IdleCrawl /\ IdlePoll /\ IdleToken /\ IdleCursor
    /\ users = << >> /\ userIds = << >>
    /\ fs = AbsentDir /\ DATA_FILE_SIZE = ONE_POST_SIZE /\ POST_COUNT = 1000
    /\ likeArgs \in (ActingUserIds \X GraphPostIds) \X (ActingUserIds \X GraphPostIds)
    /\ likeIds = << >>

\* line 486 applied to each of the two (like['id'], postId) pairs
SynthesizeLikeIds ==
    /\ pc = "like_args"
    /\ likeIds' = <<LikeId(likeArgs[1][1], likeArgs[1][2]),
                    LikeId(likeArgs[2][1], likeArgs[2][2])>>
    /\ pc' = "like_done"
    /\ UNCHANGED <<fsVars, feed, error, posts, interactions, postCount, commentCount,
                   likeCount, shareCount, postGen, subGen, postId, producedPosts,
                   producedInts, userVars, likeArgs, cursorVars, pollVars, tokenVars>>

NextLike == SynthesizeLikeIds

SpecLikeId == InitLike /\ [][NextLike]_vars

(***************************************************************************)
(* The end-to-end scenario of the specification: three posts, each with    *)
(* two comments, one like and no share; target post count 3; a threshold   *)
(* below the estimate of one interaction record; a directory that can be   *)
(* written.  Paging and failures are the remote API's choice.              *)
(***************************************************************************)
ScenarioFeed == [k \in 1..3 |-> [comments |-> 2, likes |-> 1, shares |-> 0]]

ScenarioSizes == {1, ONE_INTERACTION_SIZE - 1}

InitScenario ==
    /\ IdleAux
    /\ pc = "posts_req"
    /\ fs \in {AbsentDir, UsedDir}
    /\ feed = ScenarioFeed
    /\ POST_COUNT = 3
    /\ DATA_FILE_SIZE \in ScenarioSizes
    /\ error = None
    /\ posts = << >> /\ interactions = << >>
    /\ postCount = 0 /\ commentCount = 0 /\ likeCount = 0 /\ shareCount = 0
    /\ postGen = NewGen
    /\ subGen = [kind |-> "comments", req |-> 0, page |-> NewGen.page, i |-> 0]
    /\ postId = None
    /\ producedPosts = << >> /\ producedInts = << >>
    /\ users = << >> /\ userIds = << >>

NextCrawl ==
    \/ TransportError
    \/ PostsPage
    \/ PostBody
    \/ SubPage
    \/ SubItem
    \/ PostEnd
    \/ Finally

SpecScenario == InitScenario /\ [][NextCrawl]_vars

(***************************************************************************)
(* url_downloader.py: the time-boxed polling crawl.                        *)
(* The search endpoint holds the tweets 1..MaxTweets that match the query  *)
(* (the larger the id, the newer); a poll returns a window of them, newest *)
(* first, whatever max_id was sent.  A url is the record urlparse makes of *)
(* it.                                                                     *)
(***************************************************************************)
MaxTweets == 5     \* tweets matching the query
MaxPolls  == 2     \* stands for the 360000 of range(360000), line 185
MaxBudget == 2     \* largest RUNTIME_DURATION, in units of the clock

\* str.replace(old, new, 1)
ReplaceFirst(s, old, new) ==
    IF ~Contains(s, old) THEN s
    ELSE LET i == CHOOSE j \in 1..(Len(s) - Len(old) + 1) :
                     /\ SubSeq(s, j, j + Len(old) - 1) = old
                     /\ \A h \in 1..(j - 1) : SubSeq(s, h, h + Len(old) - 1) # old
         IN  SubSeq(s, 1, i - 1) \o new \o SubSeq(s, i + Len(old), Len(s))

\* int(s) for the id strings of the model
ToInt(s) == CHOOSE n \in 0..(MaxTweets + 1) : ToString(n) = s

\* The urls of tweet t: one url; two urls; only the backlink to the status itself.
TweetUrls(t) ==
    CASE t % 3 = 1 -> <<[scheme |-> "https", netloc |-> "www.a.com", path |-> "/x",
                         query |-> ""]>>
      [] t % 3 = 2 -> <<[scheme |-> "https", netloc |-> "a.com", path |-> "/x",
                         query |-> ""],
                        [scheme |-> "http", netloc |-> "www.b.org", path |-> "/y",
                         query |-> "q=1"]>>
      [] OTHER     -> <<[scheme |-> "https", netloc |-> "twitter.com",
                         path |-> "/i/web/status/" \o ToString(t), query |-> ""]>>

\* tweetStatus.AsDict()
Tweet(t) ==
    [id_str |-> ToString(t), user |-> [screen_name |-> "u"],
     urls |-> [j \in DOMAIN TweetUrls(t) |-> [expanded_url |-> TweetUrls(t)[j]]]]

\* TrimAndFilterUrl, url_downloader.py:85-107
TrimAndFilterUrl(res) ==
    LET domain == ReplaceFirst(res.netloc, "www.", "")
    IN  IF domain = "twitter.com" /\ StartsWith(res.path, "/i/web/status/")
        THEN None
        ELSE (IF res.scheme # "" THEN res.scheme \o "://" ELSE "")
             \o domain \o res.path
             \o (IF res.query # "" THEN "?" \o res.query ELSE "")

\* TwitterDataUnit.initFromTweet, twitter_data_unit.py:35-51
InitFromTweet(tweetDict, url, res) ==
    [user |-> tweetDict.user.screen_name,
     id |-> Get(tweetDict, "id_str", None),
     favorite_count |-> Get(tweetDict, "favorite_count", 0),
     retweet_count |-> Get(tweetDict, "retweet_count", 0),
     url |-> url,
     domain |-> ReplaceFirst(res.netloc, "www.", ""),
     scheme |-> res.scheme]

\* CreateDataUnitsFromTweet, url_downloader.py:62-82
RECURSIVE DataUnitsFrom(_, _)
DataUnitsFrom(tweet, urls) ==
    IF urls = << >> THEN << >>
    ELSE LET url  == TrimAndFilterUrl(Head(urls).expanded_url)
             rest == DataUnitsFrom(tweet, Tail(urls))
         IN  IF url = None \/ url = ""
             THEN rest
             ELSE <<InitFromTweet(tweet, url, Head(urls).expanded_url)>> \o rest

CreateDataUnitsFromTweet(tweet) == DataUnitsFrom(tweet, tweet.urls)

\* Main lines 195-204: the loop over the data units of one tweet.
\* acc = [maxId, results, resultsIds]
AlreadyHave(duId, ids) == \E i \in DOMAIN ids : ids[i] = duId

RECURSIVE AccumulateNoCheck(_, _)
AccumulateNoCheck(acc, dus) ==
    IF dus = << >> THEN acc
    ELSE LET du == Head(dus)
             m  == ToString(Min(ToInt(acc.maxId), ToInt(du.id)))
         IN  AccumulateNoCheck([maxId |-> m, results |-> Append(acc.results, du),
                                resultsIds |-> Append(acc.resultsIds, du.id)], Tail(dus))

RECURSIVE Accumulate(_, _)
Accumulate(acc, dus) ==
    IF dus = << >> THEN acc
    ELSE LET du   == Head(dus)
             duId == du.id
             m    == ToString(Min(ToInt(acc.maxId), ToInt(duId)))
         IN  IF AlreadyHave(duId, acc.resultsIds)
             THEN Accumulate([acc EXCEPT !.maxId = m], Tail(dus))
             ELSE Accumulate([maxId |-> m, results |-> Append(acc.results, du),
                              resultsIds |-> Append(acc.resultsIds, duId)], Tail(dus))

\* SaveResults, url_downloader.py:119-151
SaveResults(d, res) ==
    IF d.dir = "file"
    THEN [d EXCEPT !.calls = Append(@, [prefix |-> "", obj |-> res, name |-> None])]
    ELSE LET filename == "data_" \o ToString(FindCounter(d.files, "", 0)) \o ".json"
         IN  [dir   |-> "dir",
              files |-> [f \in DOMAIN d.files \cup {filename} |->
                            IF f = filename THEN res ELSE d.files[f]],
              calls |-> Append(d.calls, [prefix |-> "", obj |-> res, name |-> filename])]

\* The windows a poll may return, newest first.
Windows ==
    {<< >>} \cup {[j \in 1..(hi - lo + 1) |-> Tweet(hi + 1 - j)] :
                     lo \in 1..MaxTweets, hi \in 1..MaxTweets}

IdsOf(ts) == {ts[j].id_str : j \in DOMAIN ts}

\* CreateQuery, lines 38-59
Query == "filter%3Alinks&lang=en&result_type=recent&count=100"

\* GetTweets lines 162-166: the raw query sent
RawQuery(query, max_id) ==
    "q=" \o (IF max_id # None /\ max_id # ""
             THEN query \o "&max_id=" \o max_id
             ELSE query)

\* line 186: GetTweets(query, maxId) returns
PollReturns(windows) ==
    /\ pc = "poll"
    /\ \E w \in windows :
          /\ tweets' = w
          /\ pollLog' = Append(pollLog, [raw_query |-> RawQuery(Query, maxId),
                                         ids |-> IdsOf(w)])
    /\ pc' = "tweets"
    /\ UNCHANGED <<fsVars, feed, error, posts, interactions, postCount, commentCount,
                   likeCount, shareCount, postGen, subGen, postId, producedPosts,
                   producedInts, userVars, likeVars, cursorVars, tokenVars, RUNTIME_DURATION,
                   maxId, results, resultsIds, iteration, now, observed>>

Poll == PollReturns(Windows)

\* line 186: twitterApi.GetSearch raises
PollFails ==
    /\ pc = "poll"
    /\ error' = "TwitterError"
    /\ pc' = "poll_finally"
    /\ UNCHANGED <<fsVars, feed, posts, interactions, postCount, commentCount,
                   likeCount, shareCount, postGen, subGen, postId, producedPosts,
                   producedInts, userVars, likeVars, cursorVars, tokenVars, pollVars>>

\* lines 188-204: one tweet of the poll
ProcessTweet ==
    /\ pc = "tweets"
    /\ tweets # << >>
    /\ LET tweet == Head(tweets)
           dus   == CreateDataUnitsFromTweet(tweet)
           start == [maxId |-> IF maxId = None THEN dus[1].id ELSE maxId,
                     results |-> results, resultsIds |-> resultsIds]
           acc   == IF dus # << >> THEN Accumulate(start, dus)
                    ELSE [maxId |-> maxId, results |-> results,
                          resultsIds |-> resultsIds]
       IN  /\ maxId' = acc.maxId
           /\ results' = acc.results
           /\ resultsIds' = acc.resultsIds
           /\ observed' = IF dus # << >> THEN observed \cup {tweet.id_str} ELSE observed
    /\ tweets' = Tail(tweets)
    /\ UNCHANGED <<fsVars, crawlVars, userVars, likeVars, cursorVars, tokenVars, RUNTIME_DURATION,
                   iteration, now, pollLog>>

\* line 189: the extraction of a tweet raises (a key is missing in the dictionary)
ExtractionFails ==
    /\ pc = "tweets"
    /\ tweets # << >>
    /\ error' = "KeyError"
    /\ pc' = "poll_finally"
    /\ UNCHANGED <<fsVars, feed, posts, interactions, postCount, commentCount,
                   likeCount, shareCount, postGen, subGen, postId, producedPosts,
                   producedInts, userVars, likeVars, cursorVars, tokenVars, pollVars>>

\* lines 206-212 and 185: sleep, read the clock, stop when the budget is exceeded
\* or the range is exhausted
\* line 211, with startTime = 0
BudgetReached(startTime, runDuration, nowTime) == startTime + runDuration <= nowTime
BudgetExceeded(startTime, runDuration, nowTime) == startTime + runDuration < nowTime

EndPoll ==
    /\ pc = "tweets"
    /\ tweets = << >>
    /\ \E d \in 1..2 : now' = now + d
    /\ IF BudgetExceeded(0, RUNTIME_DURATION, now')
       THEN pc' = "poll_finally" /\ iteration' = iteration
       ELSE /\ iteration' = iteration + 1
            /\ pc' = IF iteration + 1 < MaxPolls THEN "poll" ELSE "poll_finally"
    /\ UNCHANGED <<fsVars, feed, error, posts, interactions, postCount, commentCount,
                   likeCount, shareCount, postGen, subGen, postId, producedPosts,
                   producedInts, userVars, likeVars, cursorVars, tokenVars, RUNTIME_DURATION,
                   tweets, maxId, results, resultsIds, pollLog, observed>>

\* lines 214-217
PollFinally ==
    /\ pc = "poll_finally"
    /\ fs' = SaveResults(fs, results)
    /\ pc' = IF error = None THEN "done" ELSE "raised"
    /\ UNCHANGED <<DATA_FILE_SIZE, POST_COUNT, feed, error, posts, interactions,
                   postCount, commentCount, likeCount, shareCount, postGen, subGen,
                   postId, producedPosts, producedInts, userVars, auxVars>>

InitPoll ==
    /\ pc = "poll"
    /\ IdleCrawl /\ IdleLike /\ IdleToken /\ IdleCursor
    /\ users = << >> /\ userIds = << >>
    /\ fs \in {AbsentDir, FileAsDir}
    /\ DATA_FILE_SIZE = ONE_POST_SIZE /\ POST_COUNT = 1000
    /\ RUNTIME_DURATION \in 0..MaxBudget
    /\ tweets = << >> /\ maxId = None /\ results = << >> /\ resultsIds = << >>
    /\ iteration = 0 /\ now = 0
    /\ pollLog = << >> /\ observed = {}

NextPoll ==
    \/ Poll
    \/ PollFails
    \/ ProcessTweet
    \/ ExtractionFails
    \/ EndPoll
    \/ PollFinally

SpecPoll == InitPoll /\ [][NextPoll]_vars

\* Runs of the polling loop to their end, against searches that return at most one
\* tweet, the same one as before or another.  Main is sequential code: a step that
\* can be taken is taken.
ShortWindows == {w \in Windows : Len(w) <= 1}

PollShort == PollReturns(ShortWindows)

NextPollLive ==
    \/ PollShort
    \/ PollFails
    \/ ProcessTweet
    \/ ExtractionFails
    \/ EndPoll
    \/ PollFinally

SpecPollLive == InitPoll /\ [][NextPollLive]_vars /\ WF_vars(NextPollLive)

(***************************************************************************)
(* Credential exchange (GraphApi.__init__, access_token_request) and the   *)
(* requests Main sends once the object is constructed.                     *)
(***************************************************************************)
Digits == {"0", "1", "2", "3", "4", "5", "6", "7", "8", "9"}

IsNumber(s) == Len(s) > 0 /\ \A i \in 1..Len(s) : SubSeq(s, i, i) \in Digits

HasQuote(s) == Contains(s, "\"")

\* json.loads on the texts of the model: null, a number, the empty object, or an
\* object of one member whose name and value are strings.  Anything else raises
\* ValueError ("invalid").
JsonLoads(s) ==
    IF s = "null" THEN [kind |-> "null"]
    ELSE IF IsNumber(s) THEN [kind |-> "number"]
    ELSE IF s = "{}" THEN [kind |-> "object", value |-> NoFiles]
    ELSE IF /\ Len(s) >= 7
            /\ StartsWith(s, "{\"") /\ EndsWith(s, "\"}")
            /\ Contains(SubSeq(s, 3, Len(s) - 2), "\":\"")
    THEN LET inner == SubSeq(s, 3, Len(s) - 2)
             i     == CHOOSE j \in 1..(Len(inner) - 2) :
                         /\ SubSeq(inner, j, j + 2) = "\":\""
                         /\ \A h \in 1..(j - 1) : SubSeq(inner, h, h + 2) # "\":\""
             key   == SubSeq(inner, 1, i - 1)
             val   == SubSeq(inner, i + 3, Len(inner))
         IN  IF HasQuote(key) \/ HasQuote(val)
             THEN [kind |-> "invalid"]
             ELSE [kind |-> "object", value |-> [k \in {key} |-> val]]
    ELSE [kind |-> "invalid"]

\* str.replace(old, new)
RECURSIVE ReplaceAll(_, _, _)
ReplaceAll(s, old, new) ==
    IF ~Contains(s, old) THEN s
    ELSE LET i == CHOOSE j \in 1..(Len(s) - Len(old) + 1) :
                     /\ SubSeq(s, j, j + Len(old) - 1) = old
                     /\ \A h \in 1..(j - 1) : SubSeq(s, h, h + Len(old) - 1) # old
         IN  SubSeq(s, 1, i - 1) \o new
             \o ReplaceAll(SubSeq(s, i + Len(old), Len(s)), old, new)

\* access_token_request lines 303-316, on the text of the response.
\* The text is a str, so line 313 (response.get) raises AttributeError whenever
\* it is reached; json.loads results that are no dictionary raise it at line 306.
AccessTokenOf(response) ==
    LET tokenJson == JsonLoads(response)
    IN  IF tokenJson.kind = "object"
        THEN [ret |-> Get(tokenJson.value, "access_token", None)]
        ELSE IF tokenJson.kind # "invalid"
        THEN [raise |-> "AttributeError"]
        ELSE IF Contains(response, "access_token")
        THEN [ret |-> ReplaceAll(response, "access_token=", "")]
        ELSE [raise |-> "AttributeError"]

\* request lines 217-222: what is sent
Request(token, endpoint, params) ==
    [endpoint |-> endpoint,
     params |-> IF "access_token" \notin DOMAIN params /\ token # None
                THEN Put(params, "access_token", token)
                ELSE params]

USER == "tomio.cz"

TokenBodies ==
    {"{\"access_token\":\"abc\"}", "{\"error\":\"bad\"}", "{}", "null", "12",
     "access_token=abc", "access_token=abc&expires=5",
     "", "Internal Server Error", "error: invalid access_token",
     " access_token=abc", "token=abc", "<p>access_token</p>",
     "{\"access_token\":\"abc\"", "{access_token=abc}"}

\* What the remote API answers to a node request: the node, or an error.
NodeResponses(node) == {node, ErrorResponse}

\* GraphApi(APP_ID, APP_SECRET), lines 92-102 with access_token_request
Construct ==
    /\ pc = "construct"
    /\ IF APP_ID = "" \/ APP_SECRET = ""
       THEN /\ error' = "ValueError"
            /\ pc' = "raised"
            /\ UNCHANGED <<accessToken, requests>>
       ELSE /\ requests' = Append(requests,
                   Request(None, "oauth/access_token",
                           [client_id |-> APP_ID, client_secret |-> APP_SECRET,
                            grant_type |-> "client_credentials"]))
            /\ \/ /\ error' = "RequestException"
                  /\ pc' = "raised"
                  /\ UNCHANGED accessToken
               \/ LET r == AccessTokenOf(body)
                  IN  IF "raise" \in DOMAIN r
                      THEN error' = r.raise /\ pc' = "raised" /\ UNCHANGED accessToken
                      ELSE accessToken' = r.ret /\ pc' = "get_id" /\ UNCHANGED error
    /\ UNCHANGED <<fsVars, feed, posts, interactions, postCount, commentCount, likeCount,
                   shareCount, postGen, subGen, postId, producedPosts, producedInts,
                   userVars, likeVars, cursorVars, pollVars, APP_ID, APP_SECRET, body, authorId,
                   authorName>>

\* get_username_from_id lines 280-286 on the path of the link
ProfileName(path) ==
    LET profileName == ReplaceAll(ReplaceAll(path, "/", ""), " ", "_")
    IN  IF profileName = "" THEN None ELSE profileName

LinkPaths == {"/tomio.cz/", "/"}

\* Main line 541: get_id_from_username, lines 258-267
GetIdFromUsername ==
    /\ pc = "get_id"
    /\ requests' = Append(requests, Request(accessToken, USER, [fields |-> "id"]))
    /\ \/ /\ error' = "RequestException"
          /\ pc' = "raised"
          /\ UNCHANGED authorId
       \/ \E response \in NodeResponses([id |-> AuthorId]) :
             /\ authorId' = Get(response, "id", None)
             /\ pc' = IF authorId' = None THEN "done" ELSE "get_name"
             /\ UNCHANGED error
    /\ UNCHANGED <<fsVars, feed, posts, interactions, postCount, commentCount, likeCount,
                   shareCount, postGen, subGen, postId, producedPosts, producedInts,
                   userVars, likeVars, cursorVars, pollVars, APP_ID, APP_SECRET, body, accessToken,
                   authorName>>

\* Main lines 546-548: get_username_from_id, lines 270-286
GetUsernameFromId ==
    /\ pc = "get_name"
    /\ requests' = Append(requests,
                          Request(accessToken, authorId, [fields |-> "id,name,link"]))
    /\ \/ /\ error' = "RequestException"
          /\ pc' = "raised"
          /\ UNCHANGED authorName
       \/ /\ error' = "KeyError"         \* the response has no 'link'
          /\ pc' = "raised"
          /\ UNCHANGED authorName
       \/ \E path \in LinkPaths :
             /\ authorName' = IF ProfileName(path) = None THEN authorId
                              ELSE ProfileName(path)
             /\ pc' = "author_info"
             /\ UNCHANGED error
    /\ UNCHANGED <<fsVars, feed, posts, interactions, postCount, commentCount, likeCount,
                   shareCount, postGen, subGen, postId, producedPosts, producedInts,
                   userVars, likeVars, cursorVars, pollVars, APP_ID, APP_SECRET, body, accessToken,
                   authorId>>

PageInfoFields == "id,name,birthday,link,location,about,fan_count,talking_about_count"

\* lines 386-392
AuthorInfo(response, name) ==
    Put(Put(Put(Put(response, "origin", "facebook"), "is_author", TRUE),
            "name_ascii", name), "birthday_format", "MM/DD/YYYY")

\* Main line 557: save_author_info, lines 372-393
SaveAuthorInfo ==
    /\ pc = "author_info"
    /\ LET first  == Request(accessToken, authorId, [fields |-> "id,name,link"])
           second == Request(accessToken, authorId, [fields |-> PageInfoFields])
       IN  \/ /\ requests' = Append(requests, first)
              /\ error' \in {"RequestException", "KeyError"}
              /\ pc' = "raised"
              /\ UNCHANGED fs
           \/ /\ requests' = requests \o <<first, second>>
              /\ error' = "RequestException"
              /\ pc' = "raised"
              /\ UNCHANGED fs
           \/ \E path \in LinkPaths,
                 response \in NodeResponses([id |-> authorId, name |-> "n"]) :
                 LET name == IF ProfileName(path) = None THEN authorId
                             ELSE ProfileName(path)
                 IN  /\ requests' = requests \o <<first, second>>
                     /\ fs' = SaveData(fs, AuthorInfo(response, name), "user_page_info")
                     /\ pc' = "first_page"
                     /\ UNCHANGED error
    /\ UNCHANGED <<DATA_FILE_SIZE, POST_COUNT, feed, posts, interactions, postCount,
                   commentCount, likeCount, shareCount, postGen, subGen, postId,
                   producedPosts, producedInts, userVars, likeVars, cursorVars, pollVars, APP_ID,
                   APP_SECRET, body, accessToken, authorId, authorName>>

PostsFields == "id,created_time,message,link,place,status_type,shares"

\* Main line 560: save_full_author_data sends its first page request (lines 402-404,
\* 442, 329-332); the crawl that follows is specification Spec.
FirstPostsPage ==
    /\ pc = "first_page"
    /\ requests' = Append(requests,
                          Request(accessToken, authorId \o "/posts",
                                  [fields |-> PostsFields, limit |-> 100]))
    /\ pc' = "posts_req"
    /\ UNCHANGED <<fsVars, feed, error, posts, interactions, postCount, commentCount,
                   likeCount, shareCount, postGen, subGen, postId, producedPosts,
                   producedInts, userVars, likeVars, cursorVars, pollVars, APP_ID, APP_SECRET, body,
                   accessToken, authorId, authorName>>

InitToken ==
    /\ pc = "construct"
    /\ IdleCrawl /\ IdleLike /\ IdlePoll /\ IdleCursor
    /\ users = << >> /\ userIds = << >>
    /\ fs \in {AbsentDir, FileAsDir}
    /\ DATA_FILE_SIZE = ONE_POST_SIZE /\ POST_COUNT = 1000
    /\ APP_ID \in {"", "id"} /\ APP_SECRET \in {"", "secret"}
    /\ body \in TokenBodies
    /\ accessToken = None /\ requests = << >>
    /\ authorId = None /\ authorName = None

NextToken ==
    \/ Construct
    \/ GetIdFromUsername
    \/ GetUsernameFromId
    \/ SaveAuthorInfo
    \/ FirstPostsPage

SpecToken == InitToken /\ [][NextToken]_vars

(***************************************************************************)
(* get_all_elements (fb_downloader.py:319-344) on a chain of pages: the    *)
(* request of url u is answered with chain[u]; the first request is url 1; *)
(* a `next` URL names any later page.                                      *)
(***************************************************************************)
MaxChain == 3      \* pages the API holds for the endpoint

CursorItem(u, j) == [id |-> ToString(u) \o "_" \o ToString(j)]

CursorData(u, len) == [j \in 1..len |-> CursorItem(u, j)]

\* The answers to the request of url u: an error object, or a page of 0..MaxPageLen
\* items without `paging`, with a `paging` that has no `next`, or with a `next`.
ChainPages(u) ==
    {ErrorResponse}
    \cup {[data |-> CursorData(u, len)] : len \in 0..MaxPageLen}
    \cup {[data |-> CursorData(u, len), paging |-> [previous |-> u]] :
             len \in 0..MaxPageLen}
    \cup {[data |-> CursorData(u, len), paging |-> [next |-> v]] :
             len \in 0..MaxPageLen, v \in (u + 1)..MaxChain}

\* The chains of n pages.
RECURSIVE ChainsOf(_)
ChainsOf(n) ==
    IF n = 0 THEN {<< >>}
    ELSE {Append(c, page) : c \in ChainsOf(n - 1), page \in ChainPages(n)}

Chains == ChainsOf(MaxChain)

\* lines 332 and 344 with the test of line 334: the generator requests cursor.req
CursorRequest ==
    /\ pc = "cur_req"
    /\ \/ /\ error' = "ConnectionError"
          /\ pc' = "cur_raised"
          /\ cursor' = cursor
       \/ LET page == chain[cursor.req]
              on   == GenOnPage(page)
          IN  /\ cursor' = [cursor EXCEPT !.page = page, !.i = IF on = "yield" THEN 1 ELSE 0]
              /\ error' = IF on = "raise" THEN "ValueError" ELSE error
              /\ pc' = CASE on = "yield"  -> "cur_yield"
                         [] on = "raise"  -> "cur_raised"
                         [] on = "return" -> "cur_done"
    /\ UNCHANGED <<fsVars, feed, posts, interactions, postCount, commentCount, likeCount,
                   shareCount, postGen, subGen, postId, producedPosts, producedInts,
                   userVars, likeVars, pollVars, tokenVars, chain, yielded>>

\* The history of the items yielded keeps the first MaxYielded of them.
MaxYielded == MaxChain * MaxPageLen

Yield(seq, element) == IF Len(seq) < MaxYielded THEN Append(seq, element) ELSE seq

\* lines 335-342: the element cursor.i is yielded, and the generator is resumed
CursorNextNeverReturns ==
    /\ pc = "cur_yield"
    /\ yielded' = Yield(yielded, cursor.page.data[cursor.i])
    /\ LET resume == GenResume(cursor)
       IN  CASE resume = "yield" ->
                  /\ cursor' = [cursor EXCEPT !.i = @ + 1]
                  /\ pc' = "cur_yield"
             [] resume = "request" ->
                  /\ cursor' = [cursor EXCEPT !.req = NextUrl(cursor)]
                  /\ pc' = "cur_req"
             [] resume = "return" ->
                  /\ cursor' = cursor
                  /\ pc' = "cur_req"
    /\ UNCHANGED <<fsVars, feed, error, posts, interactions, postCount, commentCount,
                   likeCount, shareCount, postGen, subGen, postId, producedPosts,
                   producedInts, userVars, likeVars, pollVars, tokenVars, chain>>

CursorNext ==
    /\ pc = "cur_yield"
    /\ yielded' = Yield(yielded, cursor.page.data[cursor.i])
    /\ LET resume == GenResume(cursor)
       IN  CASE resume = "yield" ->
                  /\ cursor' = [cursor EXCEPT !.i = @ + 1]
                  /\ pc' = "cur_yield"
             [] resume = "request" ->
                  /\ cursor' = [cursor EXCEPT !.req = NextUrl(cursor)]
                  /\ pc' = "cur_req"
             [] resume = "return" ->
                  /\ cursor' = cursor
                  /\ pc' = "cur_done"
    /\ UNCHANGED <<fsVars, feed, error, posts, interactions, postCount, commentCount,
                   likeCount, shareCount, postGen, subGen, postId, producedPosts,
                   producedInts, userVars, likeVars, pollVars, tokenVars, chain>>

InitCursor ==
    /\ pc = "cur_req"
    /\ IdleCrawl /\ IdleLike /\ IdlePoll /\ IdleToken
    /\ users = << >> /\ userIds = << >>
    /\ fs = AbsentDir
    /\ DATA_FILE_SIZE = ONE_POST_SIZE /\ POST_COUNT = 1000
    /\ chain \in Chains
    /\ cursor = [NewGen EXCEPT !.req = 1]
    /\ yielded = << >>

NextCursor ==
    \/ CursorRequest
    \/ CursorNext

SpecCursor == InitCursor /\ [][NextCursor]_vars

(***************************************************************************)
(* Runs to their end.  The crawl driver and the generator are sequential   *)
(* code: a step that can be taken is taken, which is weak fairness of the  *)
(* next-state relation.  The generator runs against a server whose `next`  *)
(* URL may name any page, an earlier one or the page itself included.      *)
(***************************************************************************)
ServerPages(u) ==
    {ErrorResponse}
    \cup {[data |-> CursorData(u, len)] : len \in {0, MaxPageLen}}
    \cup {[data |-> CursorData(u, len), paging |-> [next |-> v]] :
             len \in {0, MaxPageLen}, v \in 1..(MaxChain - 1)}

RECURSIVE ServerChainsOf(_)
ServerChainsOf(n) ==
    IF n = 0 THEN {<< >>}
    ELSE {Append(c, page) : c \in ServerChainsOf(n - 1), page \in ServerPages(n)}

InitServer ==
    /\ pc = "cur_req"
    /\ IdleCrawl /\ IdleLike /\ IdlePoll /\ IdleToken
    /\ users = << >> /\ userIds = << >>
    /\ fs = AbsentDir
    /\ DATA_FILE_SIZE = ONE_POST_SIZE /\ POST_COUNT = 1000
    /\ chain \in ServerChainsOf(MaxChain - 1)
    /\ cursor = [NewGen EXCEPT !.req = 1]
    /\ yielded = << >>

\* The crawl of a target that offers MaxPosts posts, the first of them with the
\* interactions, stopped by the target count after the first post or not before
\* the last.
InitLive ==
    \/ /\ IdleAux /\ DATA_FILE_SIZE = ONE_POST_SIZE /\ InitCrawl
       /\ fs = UsedDir /\ POST_COUNT \in {1, MaxPosts}
       /\ Len(feed) = MaxPosts /\ TotalItems(Tail(feed)) = 0
    \/ InitServer

NextLive ==
    \/ TransportError
    \/ PostsPage
    \/ PostBody
    \/ SubPage
    \/ SubItem
    \/ PostEnd
    \/ Finally
    \/ CursorRequest
    \/ CursorNext

SpecLive == InitLive /\ [][NextLive]_vars /\ WF_vars(NextLive)

(***************************************************************************)
(* The loader: GetDocTypeFromFilename, data_loader.py:50-63, and the       *)
(* selection of the files of a directory, Main lines 111-131.              *)
(***************************************************************************)
GetDocTypeFromFilename(filename) ==
    LET interactionStrings == {"ints", "interactions", "interaction"}
        postStrings        == {"posts", "post"}
    IN  IF \E s \in interactionStrings : Contains(filename, s) THEN "interaction"
        ELSE IF \E s \in postStrings : Contains(filename, s) THEN "post"
        ELSE IF Contains(filename, "user_info") \/ Contains(filename, "user_page_info")
             THEN "user"
        ELSE None

\* The kind a file of the directory is loaded under, None when the loader skips it.
LoadedAs(file) ==
    IF ~EndsWith(file, ".json") \/ StartsWith(file, ".") \/ Contains(file, "IGNORE")
    THEN None
    ELSE GetDocTypeFromFilename(file)

(***************************************************************************)
(* Properties.                                                             *)
(***************************************************************************)
Last(s) == s[Len(s)]

Range(s) == {s[i] : i \in DOMAIN s}

BagOfSeq(s) == [x \in Range(s) |-> Cardinality({i \in DOMAIN s : s[i] = x})]

\* The records of the files written so far under one of `prefixes`, in creation order.
RECURSIVE RecordsWritten(_, _, _)
RecordsWritten(files, calls, prefixes) ==
    IF calls = << >> THEN << >>
    ELSE LET rest == RecordsWritten(files, SubSeq(calls, 1, Len(calls) - 1), prefixes)
             c    == Last(calls)
         IN  IF c.name # None /\ c.prefix \in prefixes
             THEN rest \o files[c.name]
             ELSE rest

PostShardRecords == RecordsWritten(fs.files, fs.calls, {"post", "posts"})

InteractionShardRecords == RecordsWritten(fs.files, fs.calls, {"interaction"})

\* The calls of save_data made by the step.
NewCalls == SubSeq(fs'.calls, Len(fs.calls) + 1, Len(fs'.calls))

\* C1 (flush-on-exit): when save_full_author_data has ended, by exhaustion of the
\* post pages, by reaching the target count or by an exception, the records in the
\* post shards written during the run are, as a multiset, the post records
\* appended to `posts`, and the records in the interaction shards are the
\* interaction records appended to `interactions`.
C1_FlushOnExit ==
    pc \in {"done", "raised"} =>
        /\ BagOfSeq(PostShardRecords) = BagOfSeq(producedPosts)
        /\ BagOfSeq(InteractionShardRecords) = BagOfSeq(producedInts)

\* The same, for the runs whose data directory can be written.
C1_FlushOnExitWritableDir ==
    (pc \in {"done", "raised"} /\ fs.dir # "file") =>
        /\ BagOfSeq(PostShardRecords) = BagOfSeq(producedPosts)
        /\ BagOfSeq(InteractionShardRecords) = BagOfSeq(producedInts)

\* C2 (crash-safety ordering): an error raised during the crawl leads to the finally
\* block; the error becomes visible to the caller (pc = "raised") only by the step
\* that makes the final flush of the pending interaction and post lists, the error
\* is kept through that step, and a run that had an error never ends as a normal
\* return.
C2_CrashSafetyOrdering ==
    [][/\ (error = None /\ error' # None) => pc' \in {"finally", "users_finally"}
       /\ (error # None) => error' = error
       /\ (pc' = "raised" /\ pc # "raised" /\ pc # "users_finally") =>
             /\ pc = "finally" /\ error # None
             /\ interactions # << >> =>
                   \E i \in DOMAIN NewCalls : NewCalls[i].obj = interactions
             /\ posts # << >> =>
                   \E i \in DOMAIN NewCalls : NewCalls[i].obj = posts
             /\ fs.dir # "file" =>
                   /\ BagOfSeq(RecordsWritten(fs'.files, fs'.calls, {"post", "posts"}))
                         = BagOfSeq(producedPosts)
                   /\ BagOfSeq(RecordsWritten(fs'.files, fs'.calls, {"interaction"}))
                         = BagOfSeq(producedInts)
       /\ (pc = "finally" /\ error # None) => pc' = "raised"
       /\ (pc' = "done") => error' = None]_vars

C2_Witness ==
    /\ pc = "raised" /\ error = "ConnectionError"
    /\ interactions # << >> /\ posts # << >>
    /\ fs.calls # << >>
    /\ \E i \in DOMAIN fs.calls : fs.calls[i].obj = interactions /\ fs.calls[i].name # None
    /\ \E i \in DOMAIN fs.calls : fs.calls[i].obj = posts /\ fs.calls[i].name # None

\* C3 (shard naming): a call of save_data on a path that is a directory, or absent,
\* writes exactly one file, named <prefix>data_<n>.json (the prefix with its
\* trailing underscore), where n is the smallest non-negative integer whose name
\* did not exist before the call; the file holds the object given, and every file
\* that existed before is still there with the content it had.
C3_ShardNaming ==
    [][fs'.calls # fs.calls =>
         LET call   == Last(fs'.calls)
             prefix == IF call.prefix = "" \/ EndsWith(call.prefix, "_")
                       THEN call.prefix ELSE call.prefix \o "_"
             name(n) == prefix \o "data_" \o ToString(n) \o ".json"
         IN  /\ fs.dir # "file" =>
                  /\ call.name # None
                  /\ \E n \in 0..Cardinality(DOMAIN fs.files) :
                        /\ call.name = name(n)
                        /\ name(n) \notin DOMAIN fs.files
                        /\ \A m \in 0..(n - 1) : name(m) \in DOMAIN fs.files
                  /\ DOMAIN fs'.files = DOMAIN fs.files \cup {call.name}
                  /\ fs'.files[call.name] = call.obj
             /\ \A f \in DOMAIN fs.files :
                  f \in DOMAIN fs'.files /\ fs'.files[f] = fs.files[f]]_vars

\* A shard was written into a gap of the numbering, below an earlier file.
C3_Witness ==
    /\ fs.calls # << >>
    /\ fs.calls[1].name = "interaction_data_0.json"
    /\ "interaction_data_1.json" \in DOMAIN fs.files
    /\ fs.files["interaction_data_1.json"] = OldContent
    /\ fs.files["interaction_data_0.json"] = fs.calls[1].obj

\* What an append of record r to buffer `list` (estimate `unit` per record) must do:
\* one flush of the whole buffer when the estimate exceeds the threshold, and then
\* an empty buffer; no flush otherwise.
AppendAsClaimed(list, listAfter, r, unit, prefix) ==
    LET full == Append(list, r)
    IN  IF unit * Len(full) > DATA_FILE_SIZE
        THEN /\ listAfter = << >>
             /\ Len(NewCalls) = 1
             /\ NewCalls[1].obj = full
             /\ NewCalls[1].prefix = prefix
        ELSE /\ listAfter = full
             /\ NewCalls = << >>

AppendsAsClaimed ==
    /\ producedPosts' # producedPosts =>
          AppendAsClaimed(posts, posts', Last(producedPosts'), ONE_POST_SIZE, "post")
    /\ producedInts' # producedInts =>
          AppendAsClaimed(interactions, interactions', Last(producedInts'),
                          ONE_INTERACTION_SIZE, "interaction")
    /\ userIds' # userIds =>
          AppendAsClaimed(users, users', UserInfo(RawUser(Head(userIds))),
                          ONE_INTERACTION_SIZE, "user")
    /\ (/\ fs'.calls # fs.calls
        /\ producedPosts' = producedPosts /\ producedInts' = producedInts
        /\ userIds' = userIds) => pc \in {"finally", "users_finally"}

\* C4 as claimed: a flush exactly once per crossing of the threshold, and the
\* buffer empty after any flush, the final one included.
C4_AsClaimed ==
    [][/\ AppendsAsClaimed
       /\ (pc = "finally" /\ pc' # "finally") => interactions' = << >> /\ posts' = << >>
       /\ (pc = "users_finally" /\ pc' # "users_finally") => users' = << >>]_vars

\* C4 (amended): every append to the post, interaction or user buffer triggers a
\* flush exactly when the size estimate exceeds the threshold, exactly once, and the
\* buffer is empty right after that flush; the final flush hands the lists to
\* save_data (interactions and posts when non-empty, users always) and leaves the
\* lists as they were.
C4_FlushPerCrossing ==
    [][/\ AppendsAsClaimed
       /\ (pc = "finally" /\ pc' # "finally") =>
             /\ interactions' = interactions /\ posts' = posts
             /\ [i \in DOMAIN NewCalls |-> NewCalls[i].obj]
                   = (IF interactions # << >> THEN <<interactions>> ELSE << >>)
                     \o (IF posts # << >> THEN <<posts>> ELSE << >>)
       /\ (pc = "users_finally" /\ pc' # "users_finally") =>
             /\ users' = users
             /\ [i \in DOMAIN NewCalls |-> NewCalls[i].obj] = <<users>>]_vars

\* A threshold flush of two posts left the post buffer empty, and two interactions
\* whose estimate equals the threshold are still pending.
C4_Witness ==
    /\ \E i \in DOMAIN fs.calls : fs.calls[i].prefix = "post" /\ Len(fs.calls[i].obj) = 2
    /\ posts = << >>
    /\ DATA_FILE_SIZE = ONE_POST_SIZE
    /\ pc = "post_end"

C4_WitnessAtLimit ==
    /\ Len(interactions) = 2
    /\ DATA_FILE_SIZE = 2 * ONE_INTERACTION_SIZE

\* The raw post the posts generator is yielding.
YieldedPost == postGen.page.data[postGen.i]

\* C6 (share_count): the record stored for a post carries share_count, equal to
\* the nested shares.count of the raw post when the raw post has it and 0 when it
\* has not (no `shares`, or `shares` without `count`), and carries no `shares`;
\* this holds of every post record pending or written.
C6_ShareCount ==
    /\ [][producedPosts' # producedPosts =>
            LET raw    == YieldedPost
                stored == Last(producedPosts')
            IN  /\ "share_count" \in DOMAIN stored
                /\ "shares" \notin DOMAIN stored
                /\ stored.share_count =
                      IF "shares" \in DOMAIN raw /\ "count" \in DOMAIN raw.shares
                      THEN raw.shares.count ELSE 0
                /\ stored.id = raw.id
                /\ \/ posts' # << >> /\ Last(posts') = stored
                   \/ fs'.calls # fs.calls /\ Last(Last(fs'.calls).obj) = stored]_vars
    /\ [](\A i \in DOMAIN posts :
             "share_count" \in DOMAIN posts[i] /\ "shares" \notin DOMAIN posts[i])
    /\ [](\A i \in DOMAIN PostShardRecords :
             /\ "share_count" \in DOMAIN PostShardRecords[i]
             /\ "shares" \notin DOMAIN PostShardRecords[i])

\* A post with shares.count = 3 and a post whose `shares` has no count are stored.
C6_Witness ==
    /\ Len(producedPosts) = 2
    /\ producedPosts[1].share_count = 3
    /\ producedPosts[2].share_count = 0
    /\ (2 + feed[2].comments) % 3 = 0
    /\ "shares" \notin DOMAIN producedPosts[1]

\* C10 (as claimed): an error response to a page request of a sub-resource
\* (comments, likes, shares) raises nothing past the fan-out: the step that
\* receives it leaves no exception in flight.
C10_SubResourceErrorContained ==
    [][(pc = "sub_req" /\ error = None) => error' # "ValueError"]_vars

\* C5 (like-id synthesis): for acting-user ids and post ids as the Graph API
\* returns them (post ids with an underscore included), two (user, post) pairs
\* that get the same like id are the same pair, and the id is "L_", the user id,
\* "_", the post id.
C5_LikeIdInjective ==
    pc = "like_done" =>
        /\ likeIds[1] = likeIds[2] => likeArgs[1] = likeArgs[2]
        /\ \A k \in 1..2 :
              LET u == likeArgs[k][1]
                  p == likeArgs[k][2]
              IN  /\ Len(likeIds[k]) = Len(u) + Len(p) + 3
                  /\ SubSeq(likeIds[k], 1, 2) = "L_"
                  /\ SubSeq(likeIds[k], 3, 2 + Len(u)) = u
                  /\ SubSeq(likeIds[k], 3 + Len(u), 3 + Len(u)) = "_"
                  /\ SubSeq(likeIds[k], 4 + Len(u), Len(likeIds[k])) = p

\* Two different pairs whose user id and post id concatenate to the same digits
\* got different like ids.
C5_Witness ==
    /\ pc = "like_done"
    /\ likeArgs[1] = <<"1", "12_1">>
    /\ likeArgs[2] = <<"11", "2_1">>
    /\ likeIds[1] = "L_1_12_1"
    /\ likeIds[2] = "L_11_2_1"

\* The number of shard files written so far under one of `prefixes`.
ShardCount(prefixes) ==
    Cardinality({i \in DOMAIN fs.calls :
                    fs.calls[i].name # None /\ fs.calls[i].prefix \in prefixes})

\* C7 as claimed: the scenario, run to its normal end, leaves at least 3
\* interaction shard files, exactly 1 post shard file and 9 interaction records.
C7_AsClaimed ==
    pc = "done" =>
        /\ ShardCount({"interaction"}) >= 3
        /\ ShardCount({"post", "posts"}) = 1
        /\ Len(InteractionShardRecords) = 9

\* C7 (amended): the scenario, run to its normal end, leaves at least 3 interaction
\* shard files, exactly 3 post shard files (one post each, all written by the
\* threshold flush) and 9 interaction records over the interaction shards.
C7_Scenario ==
    pc = "done" =>
        /\ ShardCount({"interaction"}) >= 3
        /\ ShardCount({"post", "posts"}) = 3
        /\ ShardCount({"posts"}) = 0
        /\ \A i \in DOMAIN fs.calls :
              fs.calls[i].prefix = "post" => Len(fs.calls[i].obj) = 1
        /\ Len(InteractionShardRecords) = 9

C7_Witness ==
    /\ pc = "done"
    /\ postCount = 3
    /\ ShardCount({"interaction"}) = 9
    /\ ShardCount({"post"}) = 3
    /\ Len(InteractionShardRecords) = 9
    /\ Len(PostShardRecords) = 3

\* C8 (polling-mode deduplication): the accumulator never holds two records with
\* the same id, and when the polling loop has ended its size is the number of
\* distinct ids of the tweets the loop went through that gave at least one record.
C8_PollingDedup ==
    /\ \A i, j \in DOMAIN results : results[i].id = results[j].id => i = j
    /\ pc \in {"poll_finally", "done", "raised"} => Len(results) = Cardinality(observed)
    /\ {results[i].id : i \in DOMAIN results} = observed

\* Two consecutive polls shared three ids that gave records; the loop ended with
\* one record per distinct id of both polls.
C8_Witness ==
    /\ pc = "done"
    /\ Len(pollLog) = 2
    /\ pollLog[1].ids = {"5", "4", "3", "2"}
    /\ pollLog[2].ids = {"5", "4", "3", "2", "1"}
    /\ Cardinality((pollLog[1].ids \cap pollLog[2].ids) \cap observed) = 3
    /\ observed = {"5", "4", "2", "1"}
    /\ Len(results) = 4

\* The texts the claim C9 is about: neither valid JSON nor beginning with
\* 'access_token='.
Malformed(response) ==
    JsonLoads(response).kind = "invalid" /\ ~StartsWith(response, "access_token=")

\* C9 (malformed credential response is fatal), as the claim states it: when the
\* credential exchange answers with a malformed text, the construction of GraphApi
\* raises, and the credential request stays the only request of the run.
C9_MalformedIsFatal ==
    Malformed(body) =>
        /\ pc \in {"construct", "raised"}
        /\ Len(requests) <= 1
        /\ accessToken = None

\* What the code does guarantee: a malformed text in which 'access_token' does not
\* occur makes the construction raise before any other request.
C9_FatalWithoutSubstring ==
    (Malformed(body) /\ ~Contains(body, "access_token")) =>
        /\ pc \in {"construct", "raised"}
        /\ Len(requests) <= 1
        /\ accessToken = None

\* A malformed text has been taken as the token and a page of posts requested with it.
C9_MalformedAccepted ==
    /\ body = "error: invalid access_token"
    /\ Malformed(body)
    /\ accessToken = body
    /\ pc = "posts_req"
    /\ Last(requests).endpoint = AuthorId \o "/posts"
    /\ Last(requests).params.access_token = body

\* C11 as claimed: an error response to a page request of the posts resource ends
\* the pagination like an empty page, no exception comes of it.
C11_SilentTruncation ==
    [][(pc = "posts_req" /\ error = None /\ "error" \in DOMAIN postGen'.page)
          => error' = None]_vars

\* C11 (amended): an error response to a page request of the posts resource ends
\* the pagination: no further post is yielded and no further request is made, the
\* run goes to the final flush, and after the flush the ValueError made of the
\* response surfaces to the caller.
C11_PostsErrorAborts ==
    [][/\ (pc = "posts_req" /\ pc' # "posts_req" /\ "error" \in DOMAIN postGen'.page)
             => /\ error' = "ValueError"
                /\ pc' = "finally"
                /\ producedPosts' = producedPosts /\ fs' = fs
       /\ (pc = "finally" /\ error = "ValueError" /\ pc' # "finally")
             => /\ pc' = "raised" /\ error' = error
                /\ producedPosts' = producedPosts /\ producedInts' = producedInts
                /\ interactions # << >> =>
                      \E i \in DOMAIN NewCalls : NewCalls[i].obj = interactions
                /\ posts # << >> =>
                      \E i \in DOMAIN NewCalls : NewCalls[i].obj = posts
       /\ pc = "raised" => pc' = "raised"]_vars

\* After one post was fanned out, the next page of posts was an error response;
\* the pending post was flushed and the error surfaced.
C11_Witness ==
    /\ pc = "raised" /\ error = "ValueError"
    /\ "error" \in DOMAIN postGen.page
    /\ postGen.req = 1
    /\ Len(producedPosts) = 1
    /\ posts # << >>
    /\ \E i \in DOMAIN fs.calls : fs.calls[i].obj = posts /\ fs.calls[i].name # None

\* C12 (target post count), as claimed: the posts collected and fanned out never
\* exceed POST_COUNT, whatever its value (0 included); a run that ends without an
\* error has collected min(POST_COUNT, posts offered) posts; and once postCount has
\* reached POST_COUNT no further post is pulled.
C12_TargetPostCount ==
    /\ [](postCount <= POST_COUNT /\ Len(producedPosts) <= POST_COUNT)
    /\ [](pc = "done" => Len(producedPosts) = Min(POST_COUNT, Len(feed)))
    /\ [][(pc = "post_end" /\ postCount >= POST_COUNT) => pc' = "finally"]_vars

\* What the code guarantees: the same for every target of at least 1.
C12_TargetAtLeastOne ==
    /\ [](POST_COUNT >= 1 => postCount <= POST_COUNT /\ Len(producedPosts) <= POST_COUNT)
    /\ []((POST_COUNT >= 1 /\ pc = "done")
             => Len(producedPosts) = Min(POST_COUNT, Len(feed)))
    /\ [][(pc = "post_end" /\ postCount >= POST_COUNT) => pc' = "finally"]_vars

\* With target 0 one post has been collected and fanned out, and the run has ended.
C12_OnePostForTargetZero ==
    /\ POST_COUNT = 0
    /\ pc = "done"
    /\ postCount = 1 /\ Len(producedPosts) = 1
    /\ Len(feed) = 2

\* The lists handed to save_data, told apart by their records.
IsPostList(obj) == obj # << >> /\ "share_count" \in DOMAIN obj[1]

IsInteractionList(obj) == obj # << >> /\ "status_id" \in DOMAIN obj[1]

\* C13 (shard naming by kind), as claimed: every shard of posts the crawl writes,
\* by a threshold flush or by the final flush, is named post_data_<n>.json, and
\* every shard of interactions interaction_data_<n>.json.
C13_ShardNamingByKind ==
    \A i \in DOMAIN fs.calls :
        LET call == fs.calls[i]
        IN  call.name # None =>
               /\ IsPostList(call.obj) => StartsWith(call.name, "post_data_")
               /\ IsInteractionList(call.obj) => StartsWith(call.name, "interaction_data_")

\* What the code does: the threshold flush names post shards post_data_<n>.json,
\* the final flush posts_data_<n>.json; interaction shards have one prefix.
C13_TwoPostPrefixes ==
    [][\A i \in DOMAIN NewCalls :
          LET call == NewCalls[i]
          IN  call.name # None =>
                 /\ IsPostList(call.obj) =>
                       StartsWith(call.name,
                                  IF pc = "finally" THEN "posts_data_" ELSE "post_data_")
                 /\ IsInteractionList(call.obj) =>
                       StartsWith(call.name, "interaction_data_")]_vars

\* The final flush has written a post shard as posts_data_0.json into a directory
\* that holds post_data_0.json: the shards of posts have two index sequences.
C13_BothPrefixesWritten ==
    /\ pc = "done"
    /\ fs.dir = "dir"
    /\ "post_data_0.json" \in DOMAIN fs.files
    /\ \E j \in DOMAIN fs.calls :
          /\ fs.calls[j].name = "posts_data_0.json"
          /\ IsPostList(fs.calls[j].obj)

HasNext(page) == "paging" \in DOMAIN page /\ "next" \in DOMAIN page.paging

\* The items of a chain: those of the page at url u, then those of the page its
\* `next` names, up to the first page that is an error or empty, or has no `next`.
RECURSIVE ItemsFrom(_, _)
ItemsFrom(c, u) ==
    IF "error" \in DOMAIN c[u] THEN << >>
    ELSE IF c[u].data = << >> THEN << >>
    ELSE c[u].data \o (IF HasNext(c[u]) THEN ItemsFrom(c, c[u].paging.next) ELSE << >>)

IsPrefix(s, t) == Len(s) <= Len(t) /\ SubSeq(t, 1, Len(s)) = s

\* C14 (PageCursor result): get_all_elements yields the items of the pages in page
\* order and within-page order, from the first page along the `next` URLs taken
\* verbatim, none twice and none skipped; it ends at the first page whose item
\* list is empty, or after the first page that has no `next` URL.
C14_PageCursorResult ==
    /\ [](IsPrefix(yielded, ItemsFrom(chain, 1)))
    /\ [](\A i, j \in DOMAIN yielded : yielded[i] = yielded[j] => i = j)
    /\ []((pc = "cur_done" \/ (pc = "cur_raised" /\ error = "ValueError"))
             => yielded = ItemsFrom(chain, 1))
    /\ [][/\ (pc = "cur_req" /\ pc' = "cur_done") => cursor'.page.data = << >>
          /\ (pc = "cur_req" /\ pc' = "cur_yield") => cursor'.page = chain[cursor.req]
          /\ (pc = "cur_yield" /\ pc' = "cur_done")
                => ~HasNext(cursor.page) /\ cursor.i = Len(cursor.page.data)
          /\ (pc = "cur_yield" /\ pc' = "cur_req")
                => /\ HasNext(cursor.page) /\ cursor.i = Len(cursor.page.data)
                   /\ cursor'.req = cursor.page.paging.next
          /\ (pc = "cur_yield" /\ cursor.i < Len(cursor.page.data))
                => pc' = "cur_yield" /\ cursor'.i = cursor.i + 1 /\ cursor'.page = cursor.page]_vars

\* Two full pages were yielded, the second reached by a `next` that passes over a
\* page; the second page has no `next`.
C14_Witness ==
    /\ pc = "cur_done"
    /\ HasNext(chain[1]) /\ chain[1].paging.next = 3
    /\ ~HasNext(chain[3])
    /\ yielded = <<CursorItem(1, 1), CursorItem(1, 2), CursorItem(3, 1), CursorItem(3, 2)>>

TypeRank(type) == CASE type = "comment" -> 1 [] type = "like" -> 2 [] type = "share" -> 3

\* The place in the feed of the post with the given id.
PostIndex(id) == CHOOSE k \in 1..Len(feed) : PostIdOf(k) = id

\* The interactions of the given type produced so far for the post with the given id.
ProducedFor(id, type) ==
    Cardinality({i \in DOMAIN producedInts :
                    producedInts[i].status_id = id /\ producedInts[i].type = type})

\* Posts in the order of the API; for a post, the post record, then its comments,
\* then its likes, then its shares; the next post only after the shares of the
\* post before are consumed.
ProcessingOrder ==
    /\ [](\A k \in DOMAIN producedPosts : producedPosts[k].id = PostIdOf(k))
    /\ [](\A i, j \in DOMAIN producedInts :
             i < j =>
                LET a == producedInts[i]
                    b == producedInts[j]
                IN  /\ PostIndex(a.status_id) <= PostIndex(b.status_id)
                    /\ a.status_id = b.status_id => TypeRank(a.type) <= TypeRank(b.type))
    /\ [][/\ producedInts' # producedInts =>
                /\ producedPosts' = producedPosts /\ producedPosts # << >>
                /\ Last(producedInts').status_id = Last(producedPosts).id
          /\ (producedPosts' # producedPosts /\ producedPosts # << >>) =>
                LET k == Len(producedPosts)
                IN  /\ producedInts' = producedInts
                    /\ ProducedFor(PostIdOf(k), "comment") = feed[k].comments
                    /\ ProducedFor(PostIdOf(k), "like") = feed[k].likes
                    /\ ProducedFor(PostIdOf(k), "share") = feed[k].shares]_vars

\* C15 (processing order), as claimed: the processing order above, and the
\* interaction shards of the run, concatenated in creation order, are the
\* interactions in the order they were produced (during the run, together with
\* the interactions still pending).
C15_ProcessingOrder ==
    /\ ProcessingOrder
    /\ [](pc \in {"done", "raised"} => InteractionShardRecords = producedInts)
    /\ [](pc \in {"posts_req", "post_yield", "sub_req", "sub_yield", "post_end", "finally"}
             => InteractionShardRecords \o interactions = producedInts)

\* What the code guarantees: the same, the shards taken only when the data
\* directory can be written.
C15_OrderWritableDir ==
    /\ ProcessingOrder
    /\ []((pc \in {"done", "raised"} /\ fs.dir # "file")
             => InteractionShardRecords = producedInts)
    /\ []((/\ pc \in {"posts_req", "post_yield", "sub_req", "sub_yield", "post_end",
                      "finally"}
           /\ fs.dir # "file")
             => InteractionShardRecords \o interactions = producedInts)

\* A crawl into a path that is a regular file has ended; a comment and a like of
\* the first post were produced in that order, and no shard holds them.
C15_OrderLost ==
    /\ pc = "done"
    /\ fs.dir = "file"
    /\ Len(producedInts) = 2
    /\ producedInts[1].type = "comment" /\ producedInts[2].type = "like"
    /\ InteractionShardRecords = << >>

\* C16 (no retry): a transport failure of a page request (posts, comments, likes
\* or shares; also of a user request) leaves the run at its final flush: no page is
\* requested after it, the failed request included; the final flush hands the
\* pending lists to save_data, and then the failure surfaces to the caller.
C16_NoRetry ==
    /\ [](error = "ConnectionError" => pc \in {"finally", "users_finally", "raised"})
    /\ [][/\ (error = None /\ error' = "ConnectionError") =>
                /\ pc \in {"posts_req", "sub_req", "user_req"}
                /\ pc' = IF pc = "user_req" THEN "users_finally" ELSE "finally"
                /\ fs' = fs
                /\ postGen' = postGen /\ subGen' = subGen
                /\ producedPosts' = producedPosts /\ producedInts' = producedInts
          /\ (error = "ConnectionError" /\ pc = "finally") =>
                /\ pc' = "raised" /\ error' = error
                /\ postGen' = postGen /\ subGen' = subGen
                /\ interactions # << >> =>
                      \E i \in DOMAIN NewCalls : NewCalls[i].obj = interactions
                /\ posts # << >> =>
                      \E i \in DOMAIN NewCalls : NewCalls[i].obj = posts
          /\ (error = "ConnectionError" /\ pc = "users_finally") =>
                pc' = "raised" /\ error' = error /\ userIds' = userIds
          /\ pc = "raised" => pc' = "raised"]_vars

\* The request of the second page of likes failed in transport; the like of the
\* first page was flushed by the final flush and the failure surfaced.
C16_Witness ==
    /\ pc = "raised" /\ error = "ConnectionError"
    /\ subGen.kind = "likes" /\ subGen.req = 1
    /\ Len(producedInts) = 1
    /\ fs.calls # << >>
    /\ \E i \in DOMAIN fs.calls : fs.calls[i].obj = producedInts

\* The ids of the post records pending in the post buffer or written to a post shard.
PostIdsKept == {posts[i].id : i \in DOMAIN posts}
               \cup {PostShardRecords[i].id : i \in DOMAIN PostShardRecords}

\* C17 (referential integrity), as claimed: in every state of a crawl, every
\* interaction pending in the interaction buffer or written to an interaction
\* shard has the status_id of a post record produced earlier in the run, which is
\* pending in the post buffer or written to a post shard; at the end of a run every
\* interaction in the shards refers to a post in the post shards.
C17_ReferentialIntegrity ==
    /\ \A i \in DOMAIN interactions :
          /\ \E k \in DOMAIN producedPosts : producedPosts[k].id = interactions[i].status_id
          /\ interactions[i].status_id \in PostIdsKept
    /\ \A i \in DOMAIN InteractionShardRecords :
          /\ \E k \in DOMAIN producedPosts :
                producedPosts[k].id = InteractionShardRecords[i].status_id
          /\ InteractionShardRecords[i].status_id \in PostIdsKept
    /\ pc \in {"done", "raised"} =>
          \A i \in DOMAIN InteractionShardRecords :
             \E k \in DOMAIN PostShardRecords :
                PostShardRecords[k].id = InteractionShardRecords[i].status_id

\* What the code guarantees: the same for the runs whose data directory can be
\* written.
C17_IntegrityWritableDir == fs.dir # "file" => C17_ReferentialIntegrity

\* In a crawl into a path that is a regular file a comment is pending whose post
\* was dropped by a threshold flush that wrote nothing.
C17_PostDropped ==
    /\ fs.dir = "file"
    /\ interactions # << >>
    /\ posts = << >> /\ PostShardRecords = << >>
    /\ \E k \in DOMAIN producedPosts : producedPosts[k].id = interactions[1].status_id

\* The ids of the tweets the polls have returned so far.
ReturnedIds == UNION {pollLog[i].ids : i \in DOMAIN pollLog}

MinId(ids) == CHOOSE n \in {ToInt(x) : x \in ids} : \A x \in ids : n <= ToInt(x)

\* The cursor is the smallest id of `ids`, and the next request sends it as max_id.
CursorIsMinOf(ids) ==
    ids # {} => /\ maxId = ToString(MinId(ids))
                /\ RawQuery(Query, maxId) = "q=" \o Query \o "&max_id=" \o ToString(MinId(ids))

\* C18 (polling cursor), as claimed: after every poll maxId is the smallest id of
\* all the result items seen so far in the run, it never increases, and the next
\* request sends that minimum as max_id.
C18_PollingCursor ==
    /\ []((pc = "tweets" /\ tweets = << >>) => CursorIsMinOf(ReturnedIds))
    /\ [](pc = "poll" => CursorIsMinOf(ReturnedIds))
    /\ [][/\ maxId # None => maxId' # None /\ ToInt(maxId') <= ToInt(maxId)
          /\ pollLog' # pollLog => Last(pollLog').raw_query = RawQuery(Query, maxId)]_vars

\* What the code guarantees: the same with the minimum taken over the tweets that
\* gave at least one data unit; while there is none, no max_id is sent.
C18_CursorOverDataUnits ==
    /\ [](pc \in {"poll", "tweets"} => CursorIsMinOf(observed))
    /\ [](observed = {} => maxId = None /\ RawQuery(Query, maxId) = "q=" \o Query)
    /\ [][/\ maxId # None => maxId' # None /\ ToInt(maxId') <= ToInt(maxId)
          /\ pollLog' # pollLog => Last(pollLog').raw_query = RawQuery(Query, maxId)]_vars

\* The first poll returned the tweets 4 and 3; tweet 3 has only the link to itself,
\* so the second request was sent with max_id=4.
C18_CursorAboveMinimum ==
    /\ Len(pollLog) = 2
    /\ pollLog[1].ids = {"4", "3"}
    /\ pollLog[2].raw_query = "q=" \o Query \o "&max_id=4"
    /\ MinId(pollLog[1].ids) = 3

\* C19 (polling persistence), as claimed: when the polling loop has been left, by
\* the time budget, by the exhausted range or by an exception of a poll or of the
\* extraction, the accumulator has been written exactly once, and the file holds
\* every record accumulated; nothing is written while the loop runs.
C19_PollingPersistence ==
    /\ pc \in {"poll", "tweets", "poll_finally"} => fs.calls = << >>
    /\ pc \in {"done", "raised"} =>
          /\ Len(fs.calls) = 1
          /\ fs.calls[1].obj = results
          /\ fs.calls[1].name # None
          /\ fs.calls[1].name \in DOMAIN fs.files
          /\ fs.files[fs.calls[1].name] = results

\* What the code guarantees: SaveResults is called exactly once on every exit, with
\* the whole accumulator; the file is written when DATA_DIR is absent or a
\* directory.
C19_SavedOnceWritableDir ==
    /\ pc \in {"poll", "tweets", "poll_finally"} => fs.calls = << >>
    /\ pc \in {"done", "raised"} =>
          /\ Len(fs.calls) = 1
          /\ fs.calls[1].obj = results
          /\ fs.dir # "file" =>
                /\ fs.calls[1].name = "data_0.json"
                /\ fs.files[fs.calls[1].name] = results

\* DATA_DIR is a regular file: the loop ended on the time budget with two records
\* accumulated, SaveResults returned False and no file holds them.
C19_AccumulatorLost ==
    /\ pc = "done"
    /\ fs.dir = "file"
    /\ Len(results) = 2
    /\ Len(fs.calls) = 1 /\ fs.calls[1].name = None
    /\ DOMAIN fs.files = {}

\* The raw item the sub-resource generator is yielding.
YieldedItem == subGen.page.data[subGen.i]

\* C20 (normalization): every interaction the fan-out of a post produces has the
\* status_id of that post, the crawl target's id as status_author, origin
\* "facebook", an id that is not None, and the type of its sub-resource (comment,
\* like, share); the author of a like is the id of the raw item, the author of a
\* comment or share the from.id of the raw item.
C20_Normalization ==
    /\ [][producedInts' # producedInts =>
            LET rec == Last(producedInts')
                raw == YieldedItem
            IN  /\ rec.status_id = Last(producedPosts).id
                /\ rec.status_id = PostIdOf(CurrentPost)
                /\ rec.status_author = AuthorId
                /\ rec.origin = "facebook"
                /\ rec.id # None
                /\ rec.type = CASE subGen.kind = "comments" -> "comment"
                                [] subGen.kind = "likes"    -> "like"
                                [] subGen.kind = "shares"   -> "share"
                /\ rec.author = IF subGen.kind = "likes" THEN raw.id ELSE raw.from.id
                /\ \/ interactions' # << >> /\ Last(interactions') = rec
                   \/ fs'.calls # fs.calls /\ Last(Last(fs'.calls).obj) = rec]_vars
    /\ [](\A i \in DOMAIN producedInts :
             /\ producedInts[i].status_author = AuthorId
             /\ producedInts[i].origin = "facebook"
             /\ producedInts[i].id # None
             /\ producedInts[i].type \in {"comment", "like", "share"})

\* A like and a share of the second post were produced.
C20_Witness ==
    /\ Len(producedInts) = 2
    /\ producedInts[1].type = "like" /\ producedInts[1].author = "1"
    /\ producedInts[1].id = "L_1_9_2"
    /\ producedInts[2].type = "share" /\ producedInts[2].author = "1"
    /\ producedInts[2].status_id = "9_2"
    /\ producedInts[2].status_author = "9"

\* The records of the given type in the interaction shards written in the run.
ShardCountOfType(type) ==
    Cardinality({i \in DOMAIN InteractionShardRecords :
                    InteractionShardRecords[i].type = type})

\* C21 (run summary consistency), as claimed: when a run has ended, normally or
\* by an exception, the comment, like and share counters are the numbers of
\* records of these types in the interaction shards written in the run, and the
\* post counter is the number of records in the post shards written in the run.
C21_SummaryConsistency ==
    pc \in {"done", "raised"} =>
        /\ commentCount = ShardCountOfType("comment")
        /\ likeCount = ShardCountOfType("like")
        /\ shareCount = ShardCountOfType("share")
        /\ postCount = Len(PostShardRecords)

\* What the code guarantees: the same for the runs that can write their directory
\* and do not end by the KeyError of a comment without `from`.
C21_SummaryWithoutKeyError ==
    (pc \in {"done", "raised"} /\ fs.dir # "file" /\ error # "KeyError") =>
        /\ commentCount = ShardCountOfType("comment")
        /\ likeCount = ShardCountOfType("like")
        /\ shareCount = ShardCountOfType("share")
        /\ postCount = Len(PostShardRecords)

\* A comment without `from` ended a run into a directory: it was counted, and no
\* record of it is stored.
C21_CountedNotStored ==
    /\ pc = "raised" /\ error = "KeyError"
    /\ fs.dir = "dir"
    /\ commentCount = 1
    /\ ShardCountOfType("comment") = 0
    /\ postCount = 1 /\ Len(PostShardRecords) = 1

\* The pending count n of each buffer satisfies n * c <= T.
BuffersWithinThreshold ==
    /\ GetPostListSize(posts) <= DATA_FILE_SIZE
    /\ GetInteractionListSize(interactions) <= DATA_FILE_SIZE
    /\ GetInteractionListSize(users) <= DATA_FILE_SIZE

\* An append of one record to a buffer of n - 1 pending records, of per-record
\* size c: save_data is called in the step exactly when n * c > T, and the list it
\* is handed then holds floor(T / c) + 1 records.
FlushOnlyAbove(list, c) ==
    LET n == Len(list) + 1
    IN  /\ (NewCalls # << >>) <=> (n * c > DATA_FILE_SIZE)
        /\ \A i \in DOMAIN NewCalls : Len(NewCalls[i].obj) = (DATA_FILE_SIZE \div c) + 1

\* C22 (buffer bound): with per-record size c (273 for interactions and users,
\* 1010 for posts) and threshold T = DATA_FILE_SIZE, the pending count n of every
\* buffer satisfies n * c <= T after every append, an append triggers a flush
\* exactly when n * c > T (n * c = T does not flush), and every threshold-triggered
\* shard holds exactly floor(T / c) + 1 records.
C22_BufferBound ==
    /\ [] BuffersWithinThreshold
    /\ [][/\ producedPosts' # producedPosts => FlushOnlyAbove(posts, ONE_POST_SIZE)
          /\ producedInts' # producedInts =>
                FlushOnlyAbove(interactions, ONE_INTERACTION_SIZE)
          /\ userIds' # userIds => FlushOnlyAbove(users, ONE_INTERACTION_SIZE)]_vars

\* Two interactions whose estimate equals the threshold are pending unflushed, and
\* the threshold flush of posts wrote a shard of floor(546 / 1010) + 1 = 1 record.
C22_Witness ==
    /\ DATA_FILE_SIZE = 2 * ONE_INTERACTION_SIZE
    /\ Len(interactions) = 2
    /\ \E i \in DOMAIN fs.calls :
          /\ fs.calls[i].prefix = "post" /\ fs.calls[i].name # None
          /\ Len(fs.files[fs.calls[i].name]) = 1

\* The record type made from an item of the given sub-resource.
TypeOfKind(kind) ==
    CASE kind = "comments" -> "comment" [] kind = "likes" -> "like" [] kind = "shares" -> "share"

\* The driver has left the loop over the posts: by exhaustion, by the break of
\* line 514 or by an exception.
LoopLeft == pc \in {"finally", "done", "raised"}

\* The posts of the page the posts generator holds.
CurrentPage == IF "data" \in DOMAIN postGen.page THEN postGen.page.data ELSE << >>

InLoop == pc \in {"posts_req", "post_yield", "sub_req", "sub_yield", "post_end"}

\* No `next` URL of the chain names the page itself or an earlier page.
FiniteChain ==
    \A u \in DOMAIN chain :
        ("paging" \in DOMAIN chain[u] /\ "next" \in DOMAIN chain[u].paging)
            => chain[u].paging.next > u

CrawlTerminates ==
    /\ InLoop ~> (pc = "finally")
    /\ (pc = "finally") ~> (pc \in {"done", "raised"})

\* C24 (as stated): every run of the crawl driver over finite chains of pages
\* reaches the final flush and then ends, and the sequence get_all_elements
\* produces is finite for every server behaviour.
C24_AsClaimed ==
    /\ CrawlTerminates
    /\ (pc \in {"cur_req", "cur_yield"}) ~> (pc \in {"cur_done", "cur_raised"})

\* C24 (amended): every run of the crawl driver over finite chains of pages
\* reaches the final flush and then ends, with the summary or with the exception;
\* the sequence get_all_elements produces is finite when no `next` URL of the
\* resource leads back to the page it came with or to an earlier one.
C24_CrawlTermination ==
    /\ CrawlTerminates
    /\ (pc \in {"cur_req", "cur_yield"} /\ FiniteChain)
          ~> (pc \in {"cur_done", "cur_raised"})

\* A crawl that followed the `next` URL of the first posts page, fanned out two
\* posts, made the final flush and ended normally.
C24_Witness ==
    /\ pc = "done"
    /\ postGen.req >= 1
    /\ Len(producedPosts) = 2 /\ producedInts # << >>
    /\ fs.calls # << >>

\* The generator is on a page whose `next` URL names the page itself, with more
\* items yielded than the resource holds.
C24_EndlessSequence ==
    /\ pc = "cur_yield"
    /\ "paging" \in DOMAIN cursor.page /\ "next" \in DOMAIN cursor.page.paging
    /\ cursor.page.paging.next = cursor.req
    /\ Len(yielded) = MaxYielded

\* The polling loop is left: the finally clause of line 214 is next or has run.
PollingLeft == pc \in {"poll_finally", "done", "raised"}

\* C25 (polling-loop termination): every run issues a poll before anything else,
\* also with a budget of zero; the loop is left without an exception only after a
\* poll, its tweets and its sleep, exactly when the clock read after the sleep
\* exceeds the budget or the range of the loop is exhausted; no run makes more
\* polls than the range allows; and every run ends, whatever the searches return.
C25_PollingTermination ==
    /\ [](PollingLeft => (pollLog # << >> \/ error = "TwitterError"))
    /\ [](Len(pollLog) <= MaxPolls /\ iteration <= MaxPolls)
    /\ [][/\ (pc = "poll" /\ pc' # "poll") =>
                (pc' = "tweets" \/ error' = "TwitterError")
          /\ (~PollingLeft /\ PollingLeft' /\ error' = None) =>
                /\ pc = "tweets" /\ tweets = << >> /\ now' > now
                /\ (now' > RUNTIME_DURATION \/ iteration' >= MaxPolls)
          /\ (pc = "tweets" /\ pc' = "poll") =>
                (now' > now /\ now' <= RUNTIME_DURATION /\ iteration' = iteration + 1)]_vars
    /\ (pc \in {"poll", "tweets"}) ~> (pc \in {"done", "raised"})

\* A run with a budget the clock never exceeded: the second poll returned the tweet
\* the first had returned, and the run ended with the range of the loop exhausted.
C25_Witness ==
    /\ pc = "done"
    /\ Len(pollLog) = MaxPolls
    /\ now <= RUNTIME_DURATION
    /\ pollLog[1].ids # {} /\ pollLog[2].ids = pollLog[1].ids

\* The step processes the tweet at the head of `tweets` (lines 188-204).
TweetProcessed == pc = "tweets" /\ tweets # << >> /\ pc' = "tweets" /\ tweets' = Tail(tweets)

\* C26 (polling sub-records), as the claim states it: when a tweet whose id has not
\* been seen before yields k >= 1 data units, one per retained URL, all k are
\* appended to `results`.
C26_AllSubRecords ==
    [][TweetProcessed =>
          LET dus == CreateDataUnitsFromTweet(Head(tweets))
          IN  (dus # << >> /\ ~AlreadyHave(Head(tweets).id_str, resultsIds))
                 => results' = results \o dus]_vars

\* What holds instead: of the k data units of a tweet not seen before, the first is
\* appended and no other.
C26_FirstSubRecordOnly ==
    [][TweetProcessed =>
          LET dus == CreateDataUnitsFromTweet(Head(tweets))
          IN  (dus # << >> /\ ~AlreadyHave(Head(tweets).id_str, resultsIds))
                 => results' = Append(results, dus[1])]_vars

\* A run ended and saved its results; tweet 2, observed in it, has two retained
\* URLs, and the file holds one record of that tweet.
C26_SecondUrlDropped ==
    /\ pc = "done" /\ fs.dir = "dir"
    /\ "2" \in observed
    /\ Len(CreateDataUnitsFromTweet(Tweet(2))) = 2
    /\ \E f \in DOMAIN fs.files :
          Cardinality({i \in DOMAIN fs.files[f] : fs.files[f][i].id = "2"}) = 1

\* The kind of the records save_data is handed under the given prefix.
KindOfPrefix(prefix) ==
    CASE prefix \in {"post", "posts"} -> "post"
      [] prefix = "interaction"       -> "interaction"
      [] prefix \in {"user", "user_page_info"} -> "user"

\* C27 (producer/loader agreement on file names), as the claim states it: every
\* file the downloader writes (post shards of the threshold flush and of the final
\* flush, interaction shards, user shards, the author's page-info file) is loaded
\* by the loader under the kind of its records.
C27_LoaderAgreement ==
    /\ LoadedAs(Filename(PrefixWithUnderscore("user_page_info"), 0)) = "user"
    /\ \A i \in DOMAIN fs.calls :
          fs.calls[i].name # None =>
             LoadedAs(fs.calls[i].name) = KindOfPrefix(fs.calls[i].prefix)

\* What holds instead: the post shards, the interaction shards and the page-info
\* file are loaded under their kind, and every user shard is skipped.
C27_UserShardsIgnored ==
    /\ LoadedAs(Filename(PrefixWithUnderscore("user_page_info"), 0)) = "user"
    /\ \A i \in DOMAIN fs.calls :
          fs.calls[i].name # None =>
             LoadedAs(fs.calls[i].name) =
                IF fs.calls[i].prefix = "user" THEN None
                ELSE KindOfPrefix(fs.calls[i].prefix)

\* save_users_details has written two users to user_data_0.json, a name the loader
\* has no kind for.
C27_UserShardUnknown ==
    /\ pc = "done"
    /\ "user_data_0.json" \in DOMAIN fs.files
    /\ Len(fs.files["user_data_0.json"]) = 2
    /\ LoadedAs("user_data_0.json") = None

\* The body of the credential exchange is a JSON object without `access_token`.
ObjectWithoutToken ==
    JsonLoads(body).kind = "object" /\ "access_token" \notin DOMAIN JsonLoads(body).value

\* Every request made after the credential exchange carries `access_token`.
RequestsCarryToken ==
    \A i \in 2..Len(requests) : "access_token" \in DOMAIN requests[i].params

\* C28 (credential invariant), as the claim states it: whenever the construction of
\* GraphApi completes without raising, whatever the body of the credential exchange,
\* the stored access token is not None, and every request built afterwards carries
\* an `access_token` parameter.
C28_CredentialInvariant ==
    /\ [][(pc = "construct" /\ pc' = "get_id") => accessToken' # None]_vars
    /\ [] RequestsCarryToken

\* What holds instead: the same, for every body that is not a JSON object without
\* `access_token`.
C28_TokenUnlessKeyMissing ==
    /\ [][(pc = "construct" /\ pc' = "get_id" /\ ~ObjectWithoutToken)
             => accessToken' # None]_vars
    /\ [](~ObjectWithoutToken => RequestsCarryToken)

\* The exchange was answered with an error object: the object was constructed with
\* the token None, and the first page of posts was requested without access_token.
C28_NoToken ==
    /\ body = "{\"error\":\"bad\"}"
    /\ pc = "posts_req"
    /\ accessToken = None
    /\ Last(requests).endpoint = AuthorId \o "/posts"
    /\ "access_token" \notin DOMAIN Last(requests).params

\* The step appended a record to a buffer and the threshold flush it triggered
\* could not write: save_data returned False.
FlushFailed == NewCalls # << >> /\ NewCalls[1].name = None

\* C29 (failed write keeps data), as the claim states it: when the flush an append
\* triggers cannot write its file (save_data returns False), the records of that
\* flush are not discarded: the buffer keeps them pending.
C29_FailedWriteKeepsData ==
    [][/\ (producedPosts' # producedPosts /\ FlushFailed) =>
             posts' = Append(posts, Last(producedPosts'))
       /\ (producedInts' # producedInts /\ FlushFailed) =>
             interactions' = Append(interactions, Last(producedInts'))
       /\ (userIds' # userIds /\ FlushFailed) =>
             users' = Append(users, UserInfo(RawUser(Head(userIds))))]_vars

\* What holds instead: after a threshold flush that could not write, the buffer is
\* empty and the run goes on as after a flush that wrote.
C29_FailedWriteDiscards ==
    [][/\ (producedPosts' # producedPosts /\ FlushFailed) =>
             (posts' = << >> /\ error' = error /\ pc' = "sub_req")
       /\ (producedInts' # producedInts /\ FlushFailed) =>
             (interactions' = << >> /\ error' = error)
       /\ (userIds' # userIds /\ FlushFailed) =>
             (users' = << >> /\ error' = error /\ pc' = "user_req")]_vars

\* The path of the data directory is a regular file: the crawl ended normally, two
\* posts were handed to save_data, the buffer is empty and no file was written.
C29_RecordsLost ==
    /\ pc = "done" /\ error = None
    /\ fs.dir = "file" /\ fs.files = NoFiles
    /\ Len(producedPosts) = 2
    /\ posts = << >>
    /\ \E i \in DOMAIN fs.calls : fs.calls[i].prefix = "post" /\ fs.calls[i].name = None

\* C30 (no empty shard), as the claim states it: every shard file written by a
\* flush, threshold-triggered or final, of posts, interactions or users, holds at
\* least one record.
C30_NoEmptyShard ==
    \A i \in DOMAIN fs.calls :
        fs.calls[i].name # None => fs.files[fs.calls[i].name] # << >>

\* What holds instead: every post shard and every interaction shard holds at least
\* one record, and so does every user shard of a threshold flush.
C30_NoEmptyCrawlShard ==
    /\ \A i \in DOMAIN fs.calls :
          (fs.calls[i].name # None /\ fs.calls[i].prefix # "user")
             => fs.files[fs.calls[i].name] # << >>
    /\ [][(userIds' # userIds /\ NewCalls # << >>) => NewCalls[1].obj # << >>]_vars

\* The last append of save_users_details flushed the users on the threshold, and
\* the finally clause then wrote a second user file, with no record in it.
C30_EmptyUserShard ==
    /\ pc = "done"
    /\ Len(fs.calls) = 3
    /\ fs.calls[2].prefix = "user" /\ fs.calls[2].name # None /\ Len(fs.calls[2].obj) = 1
    /\ fs.calls[3].prefix = "user" /\ fs.calls[3].name # None
    /\ fs.files[fs.calls[3].name] = << >>

====
